---- MODULE Spec2Model ----
(***************************************************************************)
(* Model of the rustycoat 6502 core: the C6502 per-cycle state machine     *)
(* (cpus/c6502.rs), the Memory it drives (core/memory.rs) and the CpuTest  *)
(* harness that runs it instruction by instruction (cpus/c6502_tests.rs);  *)
(* and of the pins that connect components: Pin (core/mod.rs) over a       *)
(* std::sync::mpsc channel, OutputPort and InputPort (core/ports.rs) over  *)
(* an unbounded crossbeam channel.                                         *)
(***************************************************************************)
EXTENDS Integers, Naturals, Sequences, FiniteSets, TLC

VARIABLES
    cpu,             \* the C6502 struct: pc ac x y p sp cycle opcode value addr extra_addr state
    ram,             \* Memory.ram, kept sparse: the cells that are not zero
    overflow_checks, \* build profile: TRUE when integer overflow panics, FALSE when it wraps
    panicked,        \* a panic!/unreachable!/overflow abort has unwound the caller
    calls,           \* the public calls made so far: the last one, and how many of each
    last_action,     \* the CpuAction returned by the last step(), "None" before the first
    cputest,         \* CpuTest::run: cycles, the instructions left to run, whether it returned
    fetched,         \* history: the machine just before the current opcode was latched
    completed,       \* history: the instruction that finished last and the calls it took
    reference,       \* history: the same program executed one whole instruction at a time
    after_reset,     \* history: step() calls since the last reset(), and the memory and the
                     \* CPU's state and cycle at that call
    pin_impl,        \* which pins the system is built from: "Pin" or "Port"
    pins,            \* each pin: its variant or Option (kind), latched value, channel
    channels,        \* each channel created: its queue and which of its two ends are alive
    pin_call,        \* the last call on a pin: what it was, how it ended, what it returned
    pin_history,     \* history: per pin, the values passed to update() and returned by
                     \* wait() since it was bound to its channel, and the calls made
    memory,          \* a banked Memory (MemoryImpl): ram, banks and the page map
    mem_lock,        \* the Mutex around MemoryImpl: the thread holding it, 0 when free
    mem_threads,     \* the threads sharing the Memory: the call each is in and how far
    mem_call,        \* the last call on the Memory that ended: what, how, what it returned
    cpu_thread,      \* the thread of C6502::run: its stop flag, how far it is, and
                     \* history: what each turn of its loop received and did
    clock,           \* a Clock and the thread of Clock::run: state, tick_count, stop flag
    computer         \* a Computer: its build, its component slots, the shared stop flag,
                     \* where its owner is in start() or stop(), and history: the calls

cpuvars == <<cpu, ram, overflow_checks, panicked, calls, last_action, cputest,
             fetched, completed, reference, after_reset>>

pinvars == <<pin_impl, pins, channels, pin_call, pin_history>>

memvars == <<memory, mem_lock, mem_threads, mem_call>>

runvars == <<cpu_thread, clock, computer>>

vars == <<cpu, ram, overflow_checks, panicked, calls, last_action, cputest,
          fetched, completed, reference, after_reset,
          pin_impl, pins, channels, pin_call, pin_history,
          memory, mem_lock, mem_threads, mem_call,
          cpu_thread, clock, computer>>

---------------------------------------------------------------------------
(* Program constants (impl C6502).                                         *)
SR_NEGATIVE == 128
SR_OVERFLOW == 64
SR_UNUSED == 32
SR_BREAK == 16
SR_BCD == 8
SR_INTERRUPT_MASK == 4
SR_ZERO == 2
SR_CARRY == 1

STACK_BASE == 256
NMI_VECTOR == 65530
RESET_VECTOR == 65532
IRQ_VECTOR == 65534

Byte == 0..255
Word == 0..65535

---------------------------------------------------------------------------
(* u8 / u16 arithmetic as the code performs it.                            *)

RECURSIVE BitAnd(_, _)
BitAnd(a, b) ==
    IF a = 0 \/ b = 0 THEN 0
    ELSE (a % 2) * (b % 2) + 2 * BitAnd(a \div 2, b \div 2)

RECURSIVE BitOr(_, _)
BitOr(a, b) ==
    IF a = 0 THEN b
    ELSE IF b = 0 THEN a
    ELSE (IF a % 2 = 1 \/ b % 2 = 1 THEN 1 ELSE 0) + 2 * BitOr(a \div 2, b \div 2)

RECURSIVE BitXor(_, _)
BitXor(a, b) ==
    IF a = 0 THEN b
    ELSE IF b = 0 THEN a
    ELSE ((a + b) % 2) + 2 * BitXor(a \div 2, b \div 2)

\* p & mask != 0, for a one-bit mask
HasFlag(p, mask) == (p \div mask) % 2 = 1

\* p | mask, for a one-bit mask
FlagOn(p, mask) == IF HasFlag(p, mask) THEN p ELSE p + mask

\* p & !mask, for a one-bit mask
FlagOff(p, mask) == IF HasFlag(p, mask) THEN p - mask ELSE p

set_lo_byte(obj, val) == (obj - (obj % 256)) + val

set_hi_byte(obj, val) == (obj % 256) + val * 256

lo_byte(obj) == obj % 256

hi_byte(obj) == obj \div 256

\* `x as i8 as i16 as u16`: sign extension of a byte to a word
SignExtend(b) == IF b < 128 THEN b ELSE 65280 + b

wrapping_add16(a, b) == (a + b) % 65536

---------------------------------------------------------------------------
(* Memory (no bank configured: every page maps to (0, 0)).                 *)

\* Memory::new : ram = vec![0; 65536]
EmptyRam == <<>>

MemRead(r, address) == IF address \in DOMAIN r THEN r[address] ELSE 0

MemWrite(r, address, val) ==
    IF val = 0
    THEN [a \in (DOMAIN r) \ {address} |-> r[a]]
    ELSE [a \in (DOMAIN r) \cup {address} |-> IF a = address THEN val ELSE r[a]]

\* Memory::write_block
RECURSIVE write_block(_, _, _)
write_block(r, start, data) ==
    IF data = <<>> THEN r
    ELSE write_block(MemWrite(r, start, Head(data)), start + 1, Tail(data))

---------------------------------------------------------------------------
(* The C6502 working record `s`: the struct's fields, the memory it drives *)
(* (ram), whether the call has panicked (panic), the CpuAction a handler   *)
(* returns (act) and the u8 an Op function returns (ret).                  *)

CpuFields == {"pc", "ac", "x", "y", "p", "sp", "cycle", "opcode", "value",
              "addr", "extra_addr", "state"}

\* C6502::new
NewCpu == [pc |-> 255, ac |-> 170, x |-> 0, y |-> 0, p |-> 0, sp |-> 255,
           cycle |-> 1, opcode |-> 0, value |-> 0, addr |-> 0, extra_addr |-> 0,
           state |-> "Off"]

Working(c, r) ==
    [pc |-> c.pc, ac |-> c.ac, x |-> c.x, y |-> c.y, p |-> c.p, sp |-> c.sp,
     cycle |-> c.cycle, opcode |-> c.opcode, value |-> c.value, addr |-> c.addr,
     extra_addr |-> c.extra_addr, state |-> c.state,
     ram |-> r, panic |-> FALSE, act |-> "Continue", ret |-> 0]

CpuOf(s) == [f \in CpuFields |-> s[f]]

\* panic!, unreachable!, a failed overflow check: nothing after it executes
Panic(s) == [s EXCEPT !.panic = TRUE]

\* a `_ => unreachable!()` arm: the abort of Panic, told apart by its action
Unreachable(s) == [s EXCEPT !.panic = TRUE, !.act = "Unreachable"]

Ret(s, action) == IF s.panic THEN s ELSE [s EXCEPT !.act = action]

\* `self.pc += 1` on a u16
IncPc(s) ==
    IF s.panic THEN s
    ELSE IF s.pc = 65535
         THEN IF overflow_checks THEN Panic(s) ELSE [s EXCEPT !.pc = 0]
         ELSE [s EXCEPT !.pc = @ + 1]

\* `self.addr += self.extra_addr` on a u16
AddExtraAddr(s) ==
    IF s.panic THEN s
    ELSE IF s.addr + s.extra_addr > 65535
         THEN IF overflow_checks THEN Panic(s)
              ELSE [s EXCEPT !.addr = (s.addr + s.extra_addr) % 65536]
         ELSE [s EXCEPT !.addr = s.addr + s.extra_addr]

read_byte(s, addr) == MemRead(s.ram, addr)

read_pc_byte(s) == read_byte(s, s.pc)

write_byte(s, addr, val) ==
    IF s.panic THEN s ELSE [s EXCEPT !.ram = MemWrite(s.ram, addr, val)]

\* push_byte with SP decremented before the store
push_byte_PreDecrement(s, val) ==
    IF s.panic THEN s
    ELSE IF s.sp = 0 THEN Panic(s)
    ELSE [s EXCEPT !.ram = MemWrite(s.ram, STACK_BASE + s.sp - 1, val), !.sp = s.sp - 1]

\* push_byte with no check for a full stack: SP wraps from $00 to $FF
push_byte_Wrapping(s, val) ==
    IF s.panic THEN s
    ELSE [s EXCEPT !.ram = MemWrite(s.ram, STACK_BASE + s.sp, val),
                   !.sp = (s.sp + 255) % 256]

push_byte(s, val) ==
    IF s.panic THEN s
    ELSE IF s.sp = 0 THEN Panic(s)
    ELSE [s EXCEPT !.ram = MemWrite(s.ram, STACK_BASE + s.sp, val), !.sp = s.sp - 1]

incr_stack(s) ==
    IF s.panic THEN s
    ELSE IF s.sp = 255 THEN Panic(s)
    ELSE [s EXCEPT !.sp = s.sp + 1]

read_stack_byte(s) == MemRead(s.ram, STACK_BASE + s.sp)

set_nz(s, val) ==
    [s EXCEPT !.p =
        LET p0 == FlagOff(FlagOff(s.p, SR_ZERO), SR_NEGATIVE)
            p1 == IF val = 0 THEN FlagOn(p0, SR_ZERO) ELSE p0
        IN  IF val >= 128 THEN FlagOn(p1, SR_NEGATIVE) ELSE p1]

set_carry(s, b) ==
    [s EXCEPT !.p = IF b THEN FlagOn(s.p, SR_CARRY) ELSE FlagOff(s.p, SR_CARRY)]

set_overflow(s, b) ==
    [s EXCEPT !.p = IF b THEN FlagOn(s.p, SR_OVERFLOW) ELSE FlagOff(s.p, SR_OVERFLOW)]

---------------------------------------------------------------------------
(* Branch tests.                                                           *)

BranchTest(f, s) ==
    CASE f = "br_bpl" -> ~HasFlag(s.p, SR_NEGATIVE)
      [] f = "br_bmi" -> HasFlag(s.p, SR_NEGATIVE)
      [] f = "br_bvc" -> ~HasFlag(s.p, SR_OVERFLOW)
      [] f = "br_bvs" -> HasFlag(s.p, SR_OVERFLOW)
      [] f = "br_bcc" -> ~HasFlag(s.p, SR_CARRY)
      [] f = "br_bcs" -> HasFlag(s.p, SR_CARRY)
      [] f = "br_bne" -> ~HasFlag(s.p, SR_ZERO)
      [] f = "br_beq" -> HasFlag(s.p, SR_ZERO)

---------------------------------------------------------------------------
(* Op::Implied functions: fn(&mut C6502).                                  *)

OpImplied(f, s) ==
    CASE f = "op_clc" -> [s EXCEPT !.p = FlagOff(s.p, SR_CARRY)]
      [] f = "op_cli" -> [s EXCEPT !.p = FlagOff(s.p, SR_INTERRUPT_MASK)]
      [] f = "op_clv" -> [s EXCEPT !.p = FlagOff(s.p, SR_OVERFLOW)]
      [] f = "op_cld" -> [s EXCEPT !.p = FlagOff(s.p, SR_BCD)]
      [] f = "op_sei" -> [s EXCEPT !.p = FlagOn(s.p, SR_INTERRUPT_MASK)]
      [] f = "op_sec" -> [s EXCEPT !.p = FlagOn(s.p, SR_CARRY)]
      [] f = "op_sed" -> [s EXCEPT !.p = FlagOn(s.p, SR_BCD)]
      [] f = "op_dex" -> LET r == (s.x + 255) % 256 IN set_nz([s EXCEPT !.x = r], r)
      [] f = "op_dey" -> LET r == (s.y + 255) % 256 IN set_nz([s EXCEPT !.y = r], r)
      [] f = "op_inx" -> LET r == (s.x + 1) % 256 IN set_nz([s EXCEPT !.x = r], r)
      [] f = "op_iny" -> LET r == (s.y + 1) % 256 IN set_nz([s EXCEPT !.y = r], r)
      [] f = "op_txa" -> set_nz([s EXCEPT !.ac = s.x], s.x)
      [] f = "op_tya" -> set_nz([s EXCEPT !.ac = s.y], s.y)
      [] f = "op_tax" -> set_nz([s EXCEPT !.x = s.ac], s.ac)
      [] f = "op_tay" -> set_nz([s EXCEPT !.y = s.ac], s.ac)
      [] f = "op_txs" -> [s EXCEPT !.sp = s.x]
      [] f = "op_tsx" -> set_nz([s EXCEPT !.x = s.sp], s.sp)
      [] f = "op_nop" -> s

---------------------------------------------------------------------------
(* Op::Read functions: fn(&mut C6502, u8).                                 *)

\* a u8 result together with whether computing it overflowed the u8
U8(n) == [v |-> (n + 512) % 256, of |-> n < 0 \/ n > 255]

\* bcd_add_digits! without the decimal adjustment of a digit above 9
bcd_add_digits_NoAdjust(x, y, carry) ==
    LET r0 == U8(x + y)
        r1 == U8(r0.v + carry)
    IN  [v |-> r1.v, of |-> r0.of \/ r1.of]

\* macro bcd_add_digits!, on u8 operands
bcd_add_digits(x, y, carry) ==
    LET r0 == U8(x + y)
        r1 == U8(r0.v + carry)
        r2 == IF r1.v > 9 THEN U8(r1.v + 6) ELSE r1
    IN  [v |-> r2.v, of |-> r0.of \/ r1.of \/ r2.of]

\* the overflow checks of a debug build panic; a release build keeps the wrapped value
Checked(s, overflowed, t) == IF overflowed /\ overflow_checks THEN Panic(s) ELSE t

\* op_adc with the carry out of the added carry-in lost
op_adc_CarryInNoCarryOut(s, val) ==
    IF ~HasFlag(s.p, SR_BCD)
    THEN LET sum    == s.ac + val
             r0     == sum % 256
             c0     == sum > 255
             cin    == HasFlag(s.p, SR_CARRY)
             result == IF cin THEN (IF r0 = 255 THEN 0 ELSE r0 + 1) ELSE r0
             carry  == c0
             overflow ==
                 BitAnd(BitAnd(BitXor(s.ac, result), BitXor(val, result)), 128) # 0
         IN  set_nz(set_carry(set_overflow([s EXCEPT !.ac = result], overflow), carry),
                    result)
    ELSE LET d1 == bcd_add_digits(s.ac % 16, val % 16, s.p % 2)
             d2 == bcd_add_digits(s.ac \div 16, val \div 16, d1.v \div 16)
             ac == (d1.v % 16) + ((d2.v * 16) % 256)
         IN  Checked(s, d1.of \/ d2.of,
                     set_carry([s EXCEPT !.ac = ac], (d2.v \div 16) % 2 = 1))

op_adc(s, val) ==
    IF ~HasFlag(s.p, SR_BCD)
    THEN LET sum    == s.ac + val
             r0     == sum % 256
             c0     == sum > 255
             cin    == HasFlag(s.p, SR_CARRY)
             result == IF cin THEN (IF r0 = 255 THEN 0 ELSE r0 + 1) ELSE r0
             carry  == IF cin /\ r0 = 255 THEN TRUE ELSE c0
             overflow ==
                 BitAnd(BitAnd(BitXor(s.ac, result), BitXor(val, result)), 128) # 0
         IN  set_nz(set_carry(set_overflow([s EXCEPT !.ac = result], overflow), carry),
                    result)
    ELSE LET d1 == bcd_add_digits(s.ac % 16, val % 16, s.p % 2)
             d2 == bcd_add_digits(s.ac \div 16, val \div 16, d1.v \div 16)
             ac == (d1.v % 16) + ((d2.v * 16) % 256)
         IN  Checked(s, d1.of \/ d2.of,
                     set_carry([s EXCEPT !.ac = ac], (d2.v \div 16) % 2 = 1))

\* op_sbc with the borrow of the missing carry-in lost
op_sbc_CarryInNoBorrow(s, val) ==
    IF ~HasFlag(s.p, SR_BCD)
    THEN LET r0     == (s.ac + 256 - val) % 256
             b0     == s.ac < val
             cin    == HasFlag(s.p, SR_CARRY)
             result == IF ~cin THEN (IF r0 = 0 THEN 255 ELSE r0 - 1) ELSE r0
             borrow == b0
             overflow ==
                 BitAnd(BitAnd(BitXor(s.ac, result), BitXor(255 - val, result)), 128) # 0
         IN  set_nz(set_carry(set_overflow([s EXCEPT !.ac = result], overflow), ~borrow),
                    result)
    ELSE LET borrow == IF ~HasFlag(s.p, SR_CARRY) THEN 1 ELSE 0
             y1 == U8(10 - ((val % 16) + borrow))
             d1 == bcd_add_digits(s.ac % 16, y1.v, 0)
             h1 == U8(1 - (d1.v \div 16))
             t2 == U8((val \div 16) + h1.v)
             y2 == U8(10 - t2.v)
             d2 == bcd_add_digits(s.ac \div 16, y2.v, 0)
             ac == (d1.v % 16) + ((d2.v * 16) % 256)
         IN  Checked(s, y1.of \/ d1.of \/ h1.of \/ t2.of \/ y2.of \/ d2.of,
                     set_carry([s EXCEPT !.ac = ac], (d2.v \div 16) % 2 = 1))

op_sbc(s, val) ==
    IF ~HasFlag(s.p, SR_BCD)
    THEN LET r0     == (s.ac + 256 - val) % 256
             b0     == s.ac < val
             cin    == HasFlag(s.p, SR_CARRY)
             result == IF ~cin THEN (IF r0 = 0 THEN 255 ELSE r0 - 1) ELSE r0
             borrow == IF ~cin /\ r0 = 0 THEN TRUE ELSE b0
             overflow ==
                 BitAnd(BitAnd(BitXor(s.ac, result), BitXor(255 - val, result)), 128) # 0
         IN  set_nz(set_carry(set_overflow([s EXCEPT !.ac = result], overflow), ~borrow),
                    result)
    ELSE LET borrow == IF ~HasFlag(s.p, SR_CARRY) THEN 1 ELSE 0
             y1 == U8(10 - ((val % 16) + borrow))
             d1 == bcd_add_digits(s.ac % 16, y1.v, 0)
             h1 == U8(1 - (d1.v \div 16))
             t2 == U8((val \div 16) + h1.v)
             y2 == U8(10 - t2.v)
             d2 == bcd_add_digits(s.ac \div 16, y2.v, 0)
             ac == (d1.v % 16) + ((d2.v * 16) % 256)
         IN  Checked(s, y1.of \/ d1.of \/ h1.of \/ t2.of \/ y2.of \/ d2.of,
                     set_carry([s EXCEPT !.ac = ac], (d2.v \div 16) % 2 = 1))

op_compare(s, val, compare_to) ==
    set_nz(set_carry(s, ~(compare_to < val)), (compare_to + 256 - val) % 256)

op_bit(s, val) ==
    [s EXCEPT !.p =
        LET p0 == FlagOff(FlagOff(FlagOff(s.p, SR_NEGATIVE), SR_OVERFLOW), SR_ZERO)
        IN  p0 + BitAnd(val, SR_NEGATIVE + SR_OVERFLOW)
               + (IF BitAnd(s.ac, val) = 0 THEN SR_ZERO ELSE 0)]

OpRead(f, s, val) ==
    CASE f = "op_ora" -> LET r == BitOr(s.ac, val) IN set_nz([s EXCEPT !.ac = r], r)
      [] f = "op_and" -> LET r == BitAnd(s.ac, val) IN set_nz([s EXCEPT !.ac = r], r)
      [] f = "op_eor" -> LET r == BitXor(s.ac, val) IN set_nz([s EXCEPT !.ac = r], r)
      [] f = "op_bit" -> op_bit(s, val)
      [] f = "op_lda" -> set_nz([s EXCEPT !.ac = val], val)
      [] f = "op_ldx" -> set_nz([s EXCEPT !.x = val], val)
      [] f = "op_ldy" -> set_nz([s EXCEPT !.y = val], val)
      [] f = "op_adc" -> op_adc(s, val)
      [] f = "op_sbc" -> op_sbc(s, val)
      [] f = "op_cmp" -> op_compare(s, val, s.ac)
      [] f = "op_cpx" -> op_compare(s, val, s.x)
      [] f = "op_cpy" -> op_compare(s, val, s.y)

---------------------------------------------------------------------------
(* Op::ReadWrite functions: fn(&mut C6502, u8) -> u8, the result in ret.   *)

OpReadWrite(f, s, val) ==
    LET cin == HasFlag(s.p, SR_CARRY)
        result ==
            CASE f = "op_asl" -> (val * 2) % 256
              [] f = "op_lsr" -> val \div 2
              [] f = "op_rol" -> ((val * 2) % 256) + (IF cin THEN 1 ELSE 0)
              [] f = "op_ror" -> (val \div 2) + (IF cin THEN 128 ELSE 0)
              [] f = "op_dec" -> (val + 255) % 256
              [] f = "op_inc" -> (val + 1) % 256
        t == CASE f \in {"op_asl", "op_rol"} -> set_carry(s, val >= 128)
               [] f \in {"op_lsr", "op_ror"} -> set_carry(s, val % 2 = 1)
               [] OTHER -> s
    IN  [set_nz(t, result) EXCEPT !.ret = result]

---------------------------------------------------------------------------
(* Op::Write functions: fn(&mut C6502) -> u8, the result in ret.           *)

OpWrite(f, s) ==
    CASE f = "op_sta" -> [s EXCEPT !.ret = s.ac]
      [] f = "op_stx" -> [s EXCEPT !.ret = s.x]
      [] f = "op_sty" -> [s EXCEPT !.ret = s.y]

---------------------------------------------------------------------------
(* Instruction handlers, one T-state per call, selected by self.cycle.     *)
(* An Op is [k |-> "Read" | "ReadWrite" | "Write" | "Implied", f |-> name].*)

is_read_or_implied(op) == op.k \in {"Read", "Implied"}

do_reset_sequence(s) ==
    CASE s.cycle = 1 -> [s EXCEPT !.sp = 0]
      [] s.cycle \in {2, 3} -> s
      [] s.cycle = 4 -> [s EXCEPT !.sp = 255]
      [] s.cycle = 5 -> [s EXCEPT !.sp = 254]
      [] s.cycle = 6 -> [s EXCEPT !.sp = 253]
      [] s.cycle = 7 -> [s EXCEPT !.pc = set_lo_byte(s.pc, read_byte(s, RESET_VECTOR))]
      [] s.cycle = 8 -> [s EXCEPT !.pc = set_hi_byte(s.pc, read_byte(s, RESET_VECTOR + 1))]
      [] OTHER -> Unreachable(s)

\* do_brk with the status pushed as it stands, Break and Unused not forced
do_brk_PlainStatus(s) ==
    CASE s.cycle = 2 -> Ret(IncPc(s), "Continue")
      [] s.cycle = 3 -> Ret(push_byte(s, hi_byte(s.pc)), "Continue")
      [] s.cycle = 4 -> Ret(push_byte(s, lo_byte(s.pc)), "Continue")
      [] s.cycle = 5 -> Ret(push_byte(s, s.p), "Continue")
      [] s.cycle = 6 ->
            Ret([s EXCEPT !.pc = set_lo_byte(s.pc, read_byte(s, IRQ_VECTOR))], "Continue")
      [] s.cycle = 7 ->
            Ret([s EXCEPT !.pc = set_hi_byte(s.pc, read_byte(s, IRQ_VECTOR + 1))],
                "Complete")
      [] OTHER -> Unreachable(s)

do_brk(s) ==
    CASE s.cycle = 2 -> Ret(IncPc(s), "Continue")
      [] s.cycle = 3 -> Ret(push_byte(s, hi_byte(s.pc)), "Continue")
      [] s.cycle = 4 -> Ret(push_byte(s, lo_byte(s.pc)), "Continue")
      [] s.cycle = 5 ->
            Ret(push_byte(s, FlagOn(FlagOn(s.p, SR_BREAK), SR_UNUSED)), "Continue")
      [] s.cycle = 6 ->
            Ret([s EXCEPT !.pc = set_lo_byte(s.pc, read_byte(s, IRQ_VECTOR))], "Continue")
      [] s.cycle = 7 ->
            Ret([s EXCEPT !.pc = set_hi_byte(s.pc, read_byte(s, IRQ_VECTOR + 1))],
                "Complete")
      [] OTHER -> Unreachable(s)

do_rti(s) ==
    CASE s.cycle = 2 -> Ret(s, "Continue")
      [] s.cycle = 3 -> Ret(incr_stack(s), "Continue")
      [] s.cycle = 4 ->
            Ret(incr_stack([s EXCEPT !.p =
                    FlagOff(FlagOff(read_stack_byte(s), SR_BREAK), SR_UNUSED)]),
                "Continue")
      [] s.cycle = 5 ->
            Ret(incr_stack([s EXCEPT !.pc = set_lo_byte(s.pc, read_stack_byte(s))]),
                "Continue")
      [] s.cycle = 6 ->
            Ret([s EXCEPT !.pc = set_hi_byte(s.pc, read_stack_byte(s))], "Complete")
      [] OTHER -> Unreachable(s)

do_pha(s) ==
    CASE s.cycle = 2 -> Ret(s, "Continue")
      [] s.cycle = 3 -> Ret(push_byte(s, s.ac), "Complete")
      [] OTHER -> Unreachable(s)

do_php(s) ==
    CASE s.cycle = 2 -> Ret(s, "Continue")
      [] s.cycle = 3 ->
            Ret(push_byte(s, FlagOn(FlagOn(s.p, SR_BREAK), SR_UNUSED)), "Complete")
      [] OTHER -> Unreachable(s)

do_jsr(s) ==
    CASE s.cycle = 2 -> Ret(IncPc([s EXCEPT !.addr = read_pc_byte(s)]), "Continue")
      [] s.cycle = 3 -> Ret(s, "Continue")
      [] s.cycle = 4 -> Ret(push_byte(s, hi_byte(s.pc)), "Continue")
      [] s.cycle = 5 -> Ret(push_byte(s, lo_byte(s.pc)), "Continue")
      [] s.cycle = 6 ->
            LET a == set_hi_byte(s.addr, read_byte(s, s.pc))
            IN  Ret([s EXCEPT !.addr = a, !.pc = a], "Complete")
      [] OTHER -> Unreachable(s)

\* do_rts with PC left on the pulled return address
do_rts_NoIncrement(s) ==
    CASE s.cycle = 2 -> Ret(s, "Continue")
      [] s.cycle = 3 -> Ret(incr_stack(s), "Continue")
      [] s.cycle = 4 ->
            Ret(incr_stack([s EXCEPT !.pc = set_lo_byte(s.pc, read_stack_byte(s))]),
                "Continue")
      [] s.cycle = 5 ->
            Ret([s EXCEPT !.pc = set_hi_byte(s.pc, read_stack_byte(s))], "Continue")
      [] s.cycle = 6 -> Ret(s, "Complete")
      [] OTHER -> Unreachable(s)

do_rts(s) ==
    CASE s.cycle = 2 -> Ret(s, "Continue")
      [] s.cycle = 3 -> Ret(incr_stack(s), "Continue")
      [] s.cycle = 4 ->
            Ret(incr_stack([s EXCEPT !.pc = set_lo_byte(s.pc, read_stack_byte(s))]),
                "Continue")
      [] s.cycle = 5 ->
            Ret([s EXCEPT !.pc = set_hi_byte(s.pc, read_stack_byte(s))], "Continue")
      [] s.cycle = 6 -> Ret(IncPc(s), "Complete")
      [] OTHER -> Unreachable(s)

do_pla(s) ==
    CASE s.cycle = 2 -> Ret(s, "Continue")
      [] s.cycle = 3 -> Ret(incr_stack(s), "Continue")
      [] s.cycle = 4 ->
            LET v == read_stack_byte(s)
            IN  Ret(set_nz([s EXCEPT !.ac = v], v), "Complete")
      [] OTHER -> Unreachable(s)

\* do_plp loading the byte of the stack as it is
do_plp_Unmasked(s) ==
    CASE s.cycle = 2 -> Ret(s, "Continue")
      [] s.cycle = 3 -> Ret(incr_stack(s), "Continue")
      [] s.cycle = 4 -> Ret([s EXCEPT !.p = read_stack_byte(s)], "Complete")
      [] OTHER -> Unreachable(s)

do_plp(s) ==
    CASE s.cycle = 2 -> Ret(s, "Continue")
      [] s.cycle = 3 -> Ret(incr_stack(s), "Continue")
      [] s.cycle = 4 ->
            Ret([s EXCEPT !.p = FlagOff(FlagOff(read_stack_byte(s), SR_BREAK), SR_UNUSED)],
                "Complete")
      [] OTHER -> Unreachable(s)

do_jmp_abs(s) ==
    CASE s.cycle = 2 -> Ret(IncPc([s EXCEPT !.addr = read_pc_byte(s)]), "Continue")
      [] s.cycle = 3 ->
            \* addr holds a byte, so `|=` of the shifted byte is an addition
            LET a == (s.addr % 256) + BitOr(s.addr \div 256, read_pc_byte(s)) * 256
            IN  Ret([s EXCEPT !.addr = a, !.pc = a], "Complete")
      [] OTHER -> Unreachable(s)

\* `self.addr + 1` on a u16, inside the page-wrapped address of cycle 5
JmpIndirectHighAddr(s) ==
    [v |-> (s.addr - (s.addr % 256)) + ((s.addr + 1) % 256), of |-> s.addr = 65535]

do_jmp_abs_indirect(s) ==
    CASE s.cycle = 2 -> Ret(IncPc([s EXCEPT !.addr = read_pc_byte(s)]), "Continue")
      [] s.cycle = 3 ->
            Ret(IncPc([s EXCEPT !.addr = set_hi_byte(s.addr, read_pc_byte(s))]),
                "Continue")
      [] s.cycle = 4 -> Ret([s EXCEPT !.extra_addr = read_byte(s, s.addr)], "Continue")
      [] s.cycle = 5 ->
            LET t == [s EXCEPT !.pc = s.extra_addr]
                h == JmpIndirectHighAddr(t)
            IN  Ret(Checked(t, h.of,
                            [t EXCEPT !.pc = set_hi_byte(t.pc, read_byte(t, h.v))]),
                    "Complete")
      [] OTHER -> Unreachable(s)

\* do_branch with the operand taken as an unsigned offset
do_branch_UnsignedOffset(s, test) ==
    CASE s.cycle = 2 ->
            LET t == IncPc([s EXCEPT !.addr = read_pc_byte(s)])
            IN  IF BranchTest(test, t) THEN Ret(t, "Continue") ELSE Ret(t, "Complete")
      [] s.cycle = 3 ->
            LET a == wrapping_add16(s.pc, s.addr)
                t == [s EXCEPT !.addr = a, !.pc = set_lo_byte(s.pc, a % 256)]
            IN  IF t.pc = t.addr THEN Ret(t, "Complete") ELSE Ret(t, "Continue")
      [] s.cycle = 4 -> Ret([s EXCEPT !.pc = s.addr], "Complete")
      [] OTHER -> Unreachable(s)

do_branch(s, test) ==
    CASE s.cycle = 2 ->
            LET t == IncPc([s EXCEPT !.addr = SignExtend(read_pc_byte(s))])
            IN  IF BranchTest(test, t) THEN Ret(t, "Continue") ELSE Ret(t, "Complete")
      [] s.cycle = 3 ->
            LET a == wrapping_add16(s.pc, s.addr)
                t == [s EXCEPT !.addr = a, !.pc = set_lo_byte(s.pc, a % 256)]
            IN  IF t.pc = t.addr THEN Ret(t, "Complete") ELSE Ret(t, "Continue")
      [] s.cycle = 4 -> Ret([s EXCEPT !.pc = s.addr], "Complete")
      [] OTHER -> Unreachable(s)

---------------------------------------------------------------------------
(* Addressing-mode handlers and the operation they end in.                 *)

\* do_op with the read-modify-write result written in the cycle that computes it
do_op_NoDummyWrite(s, op, start_at) ==
    LET phase == s.cycle - start_at + 1
    IN  CASE phase = 1 /\ op.k \in {"Read", "ReadWrite"} ->
                Ret([s EXCEPT !.value = read_byte(s, s.addr)], "Continue")
          [] phase = 1 /\ op.k = "Implied" -> Ret(s, "Continue")
          [] phase = 1 /\ op.k = "Write" ->
                LET t == OpWrite(op.f, s)
                IN  Ret(write_byte(t, t.addr, t.ret), "Complete")
          [] phase = 2 /\ op.k = "Read" -> Ret(OpRead(op.f, s, s.value), "CompleteAndFetch")
          [] phase = 2 /\ op.k = "Implied" -> Ret(OpImplied(op.f, s), "CompleteAndFetch")
          [] phase = 2 /\ op.k = "ReadWrite" ->
                LET t == OpReadWrite(op.f, s, s.value)
                IN  Ret(write_byte([t EXCEPT !.value = t.ret], t.addr, t.ret), "Complete")
          [] OTHER -> Unreachable(s)

\* do_op with the write-back cycle transforming the value memory holds then
do_op_WriteBackFresh(s, op, start_at) ==
    LET phase == s.cycle - start_at + 1
    IN  CASE phase = 1 /\ op.k \in {"Read", "ReadWrite"} ->
                Ret([s EXCEPT !.value = read_byte(s, s.addr)], "Continue")
          [] phase = 1 /\ op.k = "Implied" -> Ret(s, "Continue")
          [] phase = 1 /\ op.k = "Write" ->
                LET t == OpWrite(op.f, s)
                IN  Ret(write_byte(t, t.addr, t.ret), "Complete")
          [] phase = 2 /\ op.k = "Read" -> Ret(OpRead(op.f, s, s.value), "CompleteAndFetch")
          [] phase = 2 /\ op.k = "Implied" -> Ret(OpImplied(op.f, s), "CompleteAndFetch")
          [] phase = 2 /\ op.k = "ReadWrite" ->
                LET t == OpReadWrite(op.f, s, s.value)
                IN  Ret([t EXCEPT !.value = t.ret], "Continue")
          [] phase = 3 ->
                LET t == OpReadWrite(op.f, s, read_byte(s, s.addr))
                IN  Ret(write_byte([t EXCEPT !.value = t.ret], t.addr, t.ret), "Complete")
          [] OTHER -> Unreachable(s)

do_op(s, op, start_at) ==
    LET phase == s.cycle - start_at + 1
    IN  CASE phase = 1 /\ op.k \in {"Read", "ReadWrite"} ->
                Ret([s EXCEPT !.value = read_byte(s, s.addr)], "Continue")
          [] phase = 1 /\ op.k = "Implied" -> Ret(s, "Continue")
          [] phase = 1 /\ op.k = "Write" ->
                LET t == OpWrite(op.f, s)
                IN  Ret(write_byte(t, t.addr, t.ret), "Complete")
          [] phase = 2 /\ op.k = "Read" -> Ret(OpRead(op.f, s, s.value), "CompleteAndFetch")
          [] phase = 2 /\ op.k = "Implied" -> Ret(OpImplied(op.f, s), "CompleteAndFetch")
          [] phase = 2 /\ op.k = "ReadWrite" ->
                LET t == OpReadWrite(op.f, s, s.value)
                IN  Ret([t EXCEPT !.value = t.ret], "Continue")
          [] phase = 3 -> Ret(write_byte(s, s.addr, s.value), "Complete")
          [] OTHER -> Unreachable(s)

\* do_op_immed with the operand read but PC left on it
do_op_immed_NoPcAdvance(s, op) ==
    CASE s.cycle = 2 -> Ret([s EXCEPT !.value = read_pc_byte(s)], "Continue")
      [] s.cycle = 3 /\ op.k = "Read" -> Ret(OpRead(op.f, s, s.value), "CompleteAndFetch")
      [] s.cycle = 3 /\ op.k = "Implied" -> Ret(OpImplied(op.f, s), "CompleteAndFetch")
      [] OTHER -> Unreachable(s)

do_op_immed(s, op) ==
    CASE s.cycle = 2 -> Ret(IncPc([s EXCEPT !.value = read_pc_byte(s)]), "Continue")
      [] s.cycle = 3 /\ op.k = "Read" -> Ret(OpRead(op.f, s, s.value), "CompleteAndFetch")
      [] s.cycle = 3 /\ op.k = "Implied" -> Ret(OpImplied(op.f, s), "CompleteAndFetch")
      [] OTHER -> Unreachable(s)

do_op_ac(s, op) ==
    CASE op.k = "ReadWrite" /\ s.cycle = 2 -> Ret(s, "Continue")
      [] op.k = "ReadWrite" /\ s.cycle = 3 ->
            LET t == OpReadWrite(op.f, s, s.ac)
            IN  Ret([t EXCEPT !.ac = t.ret], "CompleteAndFetch")
      [] OTHER -> Unreachable(s)

do_op_implied(s, op) ==
    CASE op.k = "Implied" /\ s.cycle = 2 -> Ret(s, "Continue")
      [] op.k = "Implied" /\ s.cycle = 3 -> Ret(OpImplied(op.f, s), "CompleteAndFetch")
      [] OTHER -> Unreachable(s)

do_op_zeropage(s, op) ==
    CASE s.cycle = 2 -> Ret(IncPc([s EXCEPT !.addr = read_pc_byte(s)]), "Continue")
      [] OTHER -> do_op(s, op, 3)

\* do_op_zeropage_indexed with the index added in the cycle that reads the operand
do_op_zeropage_indexed_NoIndexCycle(s, op, offset) ==
    CASE s.cycle = 2 ->
            Ret(IncPc([s EXCEPT !.addr = (read_pc_byte(s) + offset) % 256]), "Continue")
      [] OTHER -> do_op(s, op, 3)

do_op_zeropage_indexed(s, op, offset) ==
    CASE s.cycle = 2 -> Ret(IncPc([s EXCEPT !.addr = read_pc_byte(s)]), "Continue")
      [] s.cycle = 3 -> Ret([s EXCEPT !.addr = (s.addr + offset) % 256], "Continue")
      [] OTHER -> do_op(s, op, 4)

do_op_zeropage_x(s, op) == do_op_zeropage_indexed(s, op, s.x)

do_op_zeropage_y(s, op) == do_op_zeropage_indexed(s, op, s.y)

do_op_indexed_indirect(s, op) ==
    CASE s.cycle = 2 -> Ret(IncPc([s EXCEPT !.extra_addr = read_pc_byte(s)]), "Continue")
      [] s.cycle = 3 ->
            Ret([s EXCEPT !.extra_addr = (s.extra_addr + s.x) % 256], "Continue")
      [] s.cycle = 4 ->
            Ret([s EXCEPT !.addr = set_lo_byte(s.addr, read_byte(s, s.extra_addr)),
                          !.extra_addr = (s.extra_addr + 1) % 256], "Continue")
      [] s.cycle = 5 ->
            Ret([s EXCEPT !.addr = set_hi_byte(s.addr, read_byte(s, s.extra_addr))],
                "Continue")
      [] OTHER -> do_op(s, op, 6)

do_op_indirect_indexed(s, op) ==
    LET is_read == is_read_or_implied(op)
    IN  CASE s.cycle = 2 ->
                Ret(IncPc([s EXCEPT !.extra_addr = read_pc_byte(s)]), "Continue")
          [] s.cycle = 3 -> Ret([s EXCEPT !.addr = read_byte(s, s.extra_addr)], "Continue")
          [] s.cycle = 4 ->
                LET addr == s.addr + s.y
                    lo == set_lo_byte(s.addr, addr % 256)
                    hi == set_hi_byte(lo, read_byte(s, (s.extra_addr + 1) % 256))
                IN  Ret([s EXCEPT !.addr = hi, !.extra_addr = ((addr \div 256) % 2) * 256],
                        "Continue")
          [] s.cycle = 5 ->
                IF is_read /\ s.extra_addr = 0
                THEN do_op(s, op, 5)
                ELSE Ret(AddExtraAddr(s), "Continue")
          [] OTHER -> do_op(s, op, IF is_read /\ s.extra_addr = 0 THEN 5 ELSE 6)

do_op_abs(s, op) ==
    CASE s.cycle = 2 ->
            Ret(IncPc([s EXCEPT !.addr = set_lo_byte(s.addr, read_pc_byte(s))]), "Continue")
      [] s.cycle = 3 ->
            Ret(IncPc([s EXCEPT !.addr = set_hi_byte(s.addr, read_pc_byte(s))]), "Continue")
      [] OTHER -> do_op(s, op, 4)

\* do_op_abs_indexed with the carry of the index dropped: no fix-up cycle
do_op_abs_indexed_NoFixUp(s, op, offset) ==
    CASE s.cycle = 2 -> Ret(IncPc([s EXCEPT !.addr = read_pc_byte(s)]), "Continue")
      [] s.cycle = 3 ->
            LET addr == s.addr + offset
            IN  Ret(IncPc([s EXCEPT !.addr = set_hi_byte(addr % 256, read_pc_byte(s)),
                                    !.extra_addr = 0]),
                    "Continue")
      [] OTHER -> do_op(s, op, 4)

do_op_abs_indexed(s, op, offset) ==
    LET is_read == is_read_or_implied(op)
    IN  CASE s.cycle = 2 -> Ret(IncPc([s EXCEPT !.addr = read_pc_byte(s)]), "Continue")
          [] s.cycle = 3 ->
                LET addr == s.addr + offset
                IN  Ret(IncPc([s EXCEPT !.addr = set_hi_byte(addr % 256, read_pc_byte(s)),
                                        !.extra_addr = ((addr \div 256) % 2) * 256]),
                        "Continue")
          [] s.cycle = 4 ->
                IF is_read /\ s.extra_addr = 0
                THEN do_op(s, op, 4)
                ELSE Ret(AddExtraAddr(s), "Continue")
          [] OTHER -> do_op(s, op, IF is_read /\ s.extra_addr = 0 THEN 4 ELSE 5)

do_op_abs_x(s, op) == do_op_abs_indexed(s, op, s.x)

do_op_abs_y(s, op) == do_op_abs_indexed(s, op, s.y)

---------------------------------------------------------------------------
(* C6502::step: the opcode dispatch and the cycle bookkeeping.             *)

D(h, k, f) == [h |-> h, op |-> [k |-> k, f |-> f]]

\* the match arms of step(): opcode -> handler and its Op (or branch test)
OpTable ==
    (0 :> D("do_brk", "None", "none")) @@
    (1 :> D("do_op_indexed_indirect", "Read", "op_ora")) @@
    (4 :> D("do_op_zeropage", "Implied", "op_nop")) @@
    (5 :> D("do_op_zeropage", "Read", "op_ora")) @@
    (6 :> D("do_op_zeropage", "ReadWrite", "op_asl")) @@
    (8 :> D("do_php", "None", "none")) @@
    (9 :> D("do_op_immed", "Read", "op_ora")) @@
    (10 :> D("do_op_ac", "ReadWrite", "op_asl")) @@
    (12 :> D("do_op_abs", "Implied", "op_nop")) @@
    (13 :> D("do_op_abs", "Read", "op_ora")) @@
    (14 :> D("do_op_abs", "ReadWrite", "op_asl")) @@
    (16 :> D("do_branch", "Test", "br_bpl")) @@
    (17 :> D("do_op_indirect_indexed", "Read", "op_ora")) @@
    (20 :> D("do_op_zeropage_x", "Implied", "op_nop")) @@
    (21 :> D("do_op_zeropage_x", "Read", "op_ora")) @@
    (22 :> D("do_op_zeropage_x", "ReadWrite", "op_asl")) @@
    (24 :> D("do_op_implied", "Implied", "op_clc")) @@
    (25 :> D("do_op_abs_y", "Read", "op_ora")) @@
    (26 :> D("do_op_implied", "Implied", "op_nop")) @@
    (28 :> D("do_op_abs_x", "Implied", "op_nop")) @@
    (29 :> D("do_op_abs_x", "Read", "op_ora")) @@
    (30 :> D("do_op_abs_x", "ReadWrite", "op_asl")) @@
    (32 :> D("do_jsr", "None", "none")) @@
    (33 :> D("do_op_indexed_indirect", "Read", "op_and")) @@
    (36 :> D("do_op_zeropage", "Read", "op_bit")) @@
    (37 :> D("do_op_zeropage", "Read", "op_and")) @@
    (38 :> D("do_op_zeropage", "ReadWrite", "op_rol")) @@
    (40 :> D("do_plp", "None", "none")) @@
    (41 :> D("do_op_immed", "Read", "op_and")) @@
    (42 :> D("do_op_ac", "ReadWrite", "op_rol")) @@
    (44 :> D("do_op_abs", "Read", "op_bit")) @@
    (45 :> D("do_op_abs", "Read", "op_and")) @@
    (46 :> D("do_op_abs", "ReadWrite", "op_rol")) @@
    (48 :> D("do_branch", "Test", "br_bmi")) @@
    (49 :> D("do_op_indirect_indexed", "Read", "op_and")) @@
    (52 :> D("do_op_zeropage_x", "Implied", "op_nop")) @@
    (53 :> D("do_op_zeropage_x", "Read", "op_and")) @@
    (54 :> D("do_op_zeropage_x", "ReadWrite", "op_rol")) @@
    (56 :> D("do_op_implied", "Implied", "op_sec")) @@
    (57 :> D("do_op_abs_y", "Read", "op_and")) @@
    (58 :> D("do_op_implied", "Implied", "op_nop")) @@
    (60 :> D("do_op_abs_x", "Implied", "op_nop")) @@
    (61 :> D("do_op_abs_x", "Read", "op_and")) @@
    (62 :> D("do_op_abs_x", "ReadWrite", "op_rol")) @@
    (64 :> D("do_rti", "None", "none")) @@
    (65 :> D("do_op_indexed_indirect", "Read", "op_eor")) @@
    (68 :> D("do_op_zeropage", "Implied", "op_nop")) @@
    (69 :> D("do_op_zeropage", "Read", "op_eor")) @@
    (70 :> D("do_op_zeropage", "ReadWrite", "op_lsr")) @@
    (72 :> D("do_pha", "None", "none")) @@
    (73 :> D("do_op_immed", "Read", "op_eor")) @@
    (74 :> D("do_op_ac", "ReadWrite", "op_lsr")) @@
    (76 :> D("do_jmp_abs", "None", "none")) @@
    (77 :> D("do_op_abs", "Read", "op_eor")) @@
    (78 :> D("do_op_abs", "ReadWrite", "op_lsr")) @@
    (80 :> D("do_branch", "Test", "br_bvc")) @@
    (81 :> D("do_op_indirect_indexed", "Read", "op_eor")) @@
    (84 :> D("do_op_zeropage_x", "Implied", "op_nop")) @@
    (85 :> D("do_op_zeropage_x", "Read", "op_eor")) @@
    (86 :> D("do_op_zeropage_x", "ReadWrite", "op_lsr")) @@
    (88 :> D("do_op_implied", "Implied", "op_cli")) @@
    (89 :> D("do_op_abs_y", "Read", "op_eor")) @@
    (90 :> D("do_op_implied", "Implied", "op_nop")) @@
    (92 :> D("do_op_abs_x", "Implied", "op_nop")) @@
    (93 :> D("do_op_abs_x", "Read", "op_eor")) @@
    (94 :> D("do_op_abs_x", "ReadWrite", "op_lsr")) @@
    (96 :> D("do_rts", "None", "none")) @@
    (97 :> D("do_op_indexed_indirect", "Read", "op_adc")) @@
    (100 :> D("do_op_zeropage", "Implied", "op_nop")) @@
    (101 :> D("do_op_zeropage", "Read", "op_adc")) @@
    (102 :> D("do_op_zeropage", "ReadWrite", "op_ror")) @@
    (104 :> D("do_pla", "None", "none")) @@
    (105 :> D("do_op_immed", "Read", "op_adc")) @@
    (106 :> D("do_op_ac", "ReadWrite", "op_ror")) @@
    (108 :> D("do_jmp_abs_indirect", "None", "none")) @@
    (109 :> D("do_op_abs", "Read", "op_adc")) @@
    (110 :> D("do_op_abs", "ReadWrite", "op_ror")) @@
    (112 :> D("do_branch", "Test", "br_bvs")) @@
    (113 :> D("do_op_indirect_indexed", "Read", "op_adc")) @@
    (116 :> D("do_op_zeropage_x", "Implied", "op_nop")) @@
    (117 :> D("do_op_zeropage_x", "Read", "op_adc")) @@
    (118 :> D("do_op_zeropage_x", "ReadWrite", "op_ror")) @@
    (120 :> D("do_op_implied", "Implied", "op_sei")) @@
    (121 :> D("do_op_abs_y", "Read", "op_adc")) @@
    (122 :> D("do_op_implied", "Implied", "op_nop")) @@
    (124 :> D("do_op_abs_x", "Implied", "op_nop")) @@
    (125 :> D("do_op_abs_x", "Read", "op_adc")) @@
    (126 :> D("do_op_abs_x", "ReadWrite", "op_ror")) @@
    (128 :> D("do_op_immed", "Implied", "op_nop")) @@
    (129 :> D("do_op_indexed_indirect", "Write", "op_sta")) @@
    (130 :> D("do_op_immed", "Implied", "op_nop")) @@
    (132 :> D("do_op_zeropage", "Write", "op_sty")) @@
    (133 :> D("do_op_zeropage", "Write", "op_sta")) @@
    (134 :> D("do_op_zeropage", "Write", "op_stx")) @@
    (136 :> D("do_op_implied", "Implied", "op_dey")) @@
    (137 :> D("do_op_immed", "Implied", "op_nop")) @@
    (138 :> D("do_op_implied", "Implied", "op_txa")) @@
    (140 :> D("do_op_abs", "Write", "op_sty")) @@
    (141 :> D("do_op_abs", "Write", "op_sta")) @@
    (142 :> D("do_op_abs", "Write", "op_stx")) @@
    (144 :> D("do_branch", "Test", "br_bcc")) @@
    (145 :> D("do_op_indirect_indexed", "Write", "op_sta")) @@
    (148 :> D("do_op_zeropage_x", "Write", "op_sty")) @@
    (149 :> D("do_op_zeropage_x", "Write", "op_sta")) @@
    (150 :> D("do_op_zeropage_y", "Write", "op_stx")) @@
    (152 :> D("do_op_implied", "Implied", "op_tya")) @@
    (153 :> D("do_op_abs_y", "Write", "op_sta")) @@
    (154 :> D("do_op_implied", "Implied", "op_txs")) @@
    (157 :> D("do_op_abs_x", "Write", "op_sta")) @@
    (160 :> D("do_op_immed", "Read", "op_ldy")) @@
    (161 :> D("do_op_indexed_indirect", "Read", "op_lda")) @@
    (162 :> D("do_op_immed", "Read", "op_ldx")) @@
    (164 :> D("do_op_zeropage", "Read", "op_ldy")) @@
    (165 :> D("do_op_zeropage", "Read", "op_lda")) @@
    (166 :> D("do_op_zeropage", "Read", "op_ldx")) @@
    (168 :> D("do_op_implied", "Implied", "op_tay")) @@
    (169 :> D("do_op_immed", "Read", "op_lda")) @@
    (170 :> D("do_op_implied", "Implied", "op_tax")) @@
    (172 :> D("do_op_abs", "Read", "op_ldy")) @@
    (173 :> D("do_op_abs", "Read", "op_lda")) @@
    (174 :> D("do_op_abs", "Read", "op_ldx")) @@
    (176 :> D("do_branch", "Test", "br_bcs")) @@
    (177 :> D("do_op_indirect_indexed", "Read", "op_lda")) @@
    (180 :> D("do_op_zeropage_x", "Read", "op_ldy")) @@
    (181 :> D("do_op_zeropage_x", "Read", "op_lda")) @@
    (182 :> D("do_op_zeropage_y", "Read", "op_ldx")) @@
    (184 :> D("do_op_implied", "Implied", "op_clv")) @@
    (185 :> D("do_op_abs_y", "Read", "op_lda")) @@
    (186 :> D("do_op_implied", "Implied", "op_tsx")) @@
    (188 :> D("do_op_abs_x", "Read", "op_ldy")) @@
    (189 :> D("do_op_abs_x", "Read", "op_lda")) @@
    (190 :> D("do_op_abs_y", "Read", "op_ldx")) @@
    (192 :> D("do_op_immed", "Read", "op_cpy")) @@
    (193 :> D("do_op_indexed_indirect", "Read", "op_cmp")) @@
    (194 :> D("do_op_immed", "Implied", "op_nop")) @@
    (196 :> D("do_op_zeropage", "Read", "op_cpy")) @@
    (197 :> D("do_op_zeropage", "Read", "op_cmp")) @@
    (198 :> D("do_op_zeropage", "ReadWrite", "op_dec")) @@
    (200 :> D("do_op_implied", "Implied", "op_iny")) @@
    (201 :> D("do_op_immed", "Read", "op_cmp")) @@
    (202 :> D("do_op_implied", "Implied", "op_dex")) @@
    (204 :> D("do_op_abs", "Read", "op_cpy")) @@
    (205 :> D("do_op_abs", "Read", "op_cmp")) @@
    (206 :> D("do_op_abs", "ReadWrite", "op_dec")) @@
    (208 :> D("do_branch", "Test", "br_bne")) @@
    (209 :> D("do_op_indirect_indexed", "Read", "op_cmp")) @@
    (212 :> D("do_op_zeropage_x", "Implied", "op_nop")) @@
    (213 :> D("do_op_zeropage_x", "Read", "op_cmp")) @@
    (214 :> D("do_op_zeropage_x", "ReadWrite", "op_dec")) @@
    (216 :> D("do_op_implied", "Implied", "op_cld")) @@
    (217 :> D("do_op_abs_y", "Read", "op_cmp")) @@
    (218 :> D("do_op_implied", "Implied", "op_nop")) @@
    (220 :> D("do_op_abs_x", "Implied", "op_nop")) @@
    (221 :> D("do_op_abs_x", "Read", "op_cmp")) @@
    (222 :> D("do_op_abs_x", "ReadWrite", "op_dec")) @@
    (224 :> D("do_op_immed", "Read", "op_cpx")) @@
    (225 :> D("do_op_indexed_indirect", "Read", "op_sbc")) @@
    (226 :> D("do_op_immed", "Implied", "op_nop")) @@
    (228 :> D("do_op_zeropage", "Read", "op_cpx")) @@
    (229 :> D("do_op_zeropage", "Read", "op_sbc")) @@
    (230 :> D("do_op_zeropage", "ReadWrite", "op_inc")) @@
    (232 :> D("do_op_implied", "Implied", "op_inx")) @@
    (233 :> D("do_op_immed", "Read", "op_sbc")) @@
    (234 :> D("do_op_implied", "Implied", "op_nop")) @@
    (236 :> D("do_op_abs", "Read", "op_cpx")) @@
    (237 :> D("do_op_abs", "Read", "op_sbc")) @@
    (238 :> D("do_op_abs", "ReadWrite", "op_inc")) @@
    (240 :> D("do_branch", "Test", "br_beq")) @@
    (241 :> D("do_op_indirect_indexed", "Read", "op_sbc")) @@
    (244 :> D("do_op_zeropage_x", "Implied", "op_nop")) @@
    (245 :> D("do_op_zeropage_x", "Read", "op_sbc")) @@
    (246 :> D("do_op_zeropage_x", "ReadWrite", "op_inc")) @@
    (248 :> D("do_op_implied", "Implied", "op_sed")) @@
    (249 :> D("do_op_abs_y", "Read", "op_sbc")) @@
    (250 :> D("do_op_implied", "Implied", "op_nop")) @@
    (252 :> D("do_op_abs_x", "Implied", "op_nop")) @@
    (253 :> D("do_op_abs_x", "Read", "op_sbc")) @@
    (254 :> D("do_op_abs_x", "ReadWrite", "op_inc"))

Dispatch(s) ==
    LET d == OpTable[s.opcode]
    IN  CASE d.h = "do_brk" -> do_brk(s)
          [] d.h = "do_rti" -> do_rti(s)
          [] d.h = "do_rts" -> do_rts(s)
          [] d.h = "do_jsr" -> do_jsr(s)
          [] d.h = "do_pha" -> do_pha(s)
          [] d.h = "do_php" -> do_php(s)
          [] d.h = "do_pla" -> do_pla(s)
          [] d.h = "do_plp" -> do_plp(s)
          [] d.h = "do_jmp_abs" -> do_jmp_abs(s)
          [] d.h = "do_jmp_abs_indirect" -> do_jmp_abs_indirect(s)
          [] d.h = "do_branch" -> do_branch(s, d.op.f)
          [] d.h = "do_op_immed" -> do_op_immed(s, d.op)
          [] d.h = "do_op_ac" -> do_op_ac(s, d.op)
          [] d.h = "do_op_implied" -> do_op_implied(s, d.op)
          [] d.h = "do_op_zeropage" -> do_op_zeropage(s, d.op)
          [] d.h = "do_op_zeropage_x" -> do_op_zeropage_x(s, d.op)
          [] d.h = "do_op_zeropage_y" -> do_op_zeropage_y(s, d.op)
          [] d.h = "do_op_indexed_indirect" -> do_op_indexed_indirect(s, d.op)
          [] d.h = "do_op_indirect_indexed" -> do_op_indirect_indexed(s, d.op)
          [] d.h = "do_op_abs" -> do_op_abs(s, d.op)
          [] d.h = "do_op_abs_x" -> do_op_abs_x(s, d.op)
          [] d.h = "do_op_abs_y" -> do_op_abs_y(s, d.op)

\* the opcode fetch of cycle 1
FetchOpcode(s) ==
    LET t == IncPc([s EXCEPT !.opcode = read_pc_byte(s)])
    IN  IF t.panic THEN t ELSE Ret([t EXCEPT !.cycle = 2], "Continue")

\* the cycle bookkeeping with the next opcode latched but PC left on it
NextCycle_FetchWithoutAdvance(r) ==
    CASE r.panic -> r
      [] r.act = "Continue" -> [r EXCEPT !.cycle = r.cycle + 1]
      [] r.act = "Complete" -> [r EXCEPT !.cycle = 1]
      [] r.act = "CompleteAndFetch" -> [r EXCEPT !.opcode = read_pc_byte(r), !.cycle = 2]

\* the cycle bookkeeping with the counter restarted at 1 after CompleteAndFetch
NextCycle_RestartAtOne(r) ==
    CASE r.panic -> r
      [] r.act = "Continue" -> [r EXCEPT !.cycle = r.cycle + 1]
      [] r.act = "Complete" -> [r EXCEPT !.cycle = 1]
      [] r.act = "CompleteAndFetch" ->
            LET t == IncPc([r EXCEPT !.opcode = read_pc_byte(r)])
            IN  IF t.panic THEN t ELSE [t EXCEPT !.cycle = 1]

\* `match next_action`: the cycle counter after a handler returned
NextCycle(r) ==
    CASE r.panic -> r
      [] r.act = "Continue" -> [r EXCEPT !.cycle = r.cycle + 1]
      [] r.act = "Complete" -> [r EXCEPT !.cycle = 1]
      [] r.act = "CompleteAndFetch" ->
            LET t == IncPc([r EXCEPT !.opcode = read_pc_byte(r)])
            IN  IF t.panic THEN t ELSE [t EXCEPT !.cycle = 2]

\* the `match self.opcode` of a Running CPU that holds an opcode
Handler(s) ==
    IF s.opcode \notin DOMAIN OpTable THEN Panic(s) ELSE Dispatch(s)

\* step with the cycle counter left running when the reset sequence ends
step_CycleKeptAfterReset(s) ==
    CASE s.state = "Running" ->
            IF s.cycle = 1 THEN FetchOpcode(s) ELSE NextCycle(Handler(s))
      [] s.state = "Off" -> Ret(s, "Continue")
      [] s.state = "Resetting" ->
            LET r == do_reset_sequence(s)
            IN  IF r.panic THEN r
                ELSE IF r.cycle = 8
                     THEN Ret([r EXCEPT !.state = "Running", !.cycle = r.cycle + 1],
                              "Complete")
                     ELSE Ret([r EXCEPT !.cycle = r.cycle + 1], "Continue")

step(s) ==
    CASE s.state = "Running" ->
            IF s.cycle = 1 THEN FetchOpcode(s) ELSE NextCycle(Handler(s))
      [] s.state = "Off" -> Ret(s, "Continue")
      [] s.state = "Resetting" ->
            LET r == do_reset_sequence(s)
            IN  IF r.panic THEN r
                ELSE IF r.cycle = 8
                     THEN Ret([r EXCEPT !.state = "Running", !.cycle = 1], "Complete")
                     ELSE Ret([r EXCEPT !.cycle = r.cycle + 1], "Continue")

\* reset() with the cycle counter left where the interrupted instruction had it
reset_KeepCycle(s) == [s EXCEPT !.state = "Resetting"]

\* C6502::reset
reset(s) == [s EXCEPT !.state = "Resetting", !.cycle = 1]

---------------------------------------------------------------------------
(* Banked memory (core/memory.rs).  A Memory m is [ram, banks, map]: ram   *)
(* sparse as above, banks the boxed MemoryBanks, map the (bank_id, offset) *)
(* of each of the 256 pages, kept sparse too: the pages that are not       *)
(* (0, 0).  A bank is [kind, size, writeable, cells]:                      *)
(* a RomBank ("Rom", cells its bytes) or the tests' TestBank ("Test",      *)
(* cells its mem), cells kept sparse.                                      *)

Pages == 0..255

\* map: [(0, 0); 256]
NoMap == <<>>

\* self.map[page]
MapAt(m, page) == IF page \in DOMAIN m.map THEN m.map[page] ELSE <<0, 0>>

\* self.map[page] = entry, for every page of pages
MapFill(map, pages, entry) ==
    IF entry = <<0, 0>>
    THEN [page \in (DOMAIN map) \ pages |-> map[page]]
    ELSE [page \in (DOMAIN map) \cup pages |-> IF page \in pages THEN entry ELSE map[page]]

\* Memory::new
Memory_new == [ram |-> EmptyRam, banks |-> <<>>, map |-> NoMap]

\* RomBank::with_bytes
RomBank_with_bytes(bytes) ==
    [kind |-> "Rom", size |-> Len(bytes), writeable |-> FALSE,
     cells |-> [a \in {i \in 0..(Len(bytes) - 1) : bytes[i + 1] # 0} |-> bytes[a + 1]]]

\* TestBank::new_boxed
TestBank_new_boxed(size, is_writeable) ==
    [kind |-> "Test", size |-> size, writeable |-> is_writeable, cells |-> EmptyRam]

\* how a call on the memory ends: it returns, or it panics
MemReturned(m, ret) == [memory |-> m, outcome |-> "returned", ret |-> ret]

MemPanicked(m) == [memory |-> m, outcome |-> "panicked", ret |-> -1]

\* MemoryBank::is_writeable
is_writeable(bank, addr) == bank.writeable

\* MemoryBank::read_byte of RomBank and of TestBank: the byte, or -1 for the
\* panic of TestBank's index out of bounds.  offset never exceeds addr: a
\* page is mapped with an offset of at most its config's start_addr
Bank_read_byte(bank, addr, offset) ==
    IF addr - offset < bank.size THEN MemRead(bank.cells, addr - offset)
    ELSE IF bank.kind = "Rom" THEN 0
    ELSE -1

\* MemoryBank::write_byte of RomBank and of TestBank: the bank written, or
\* the bank's kind "Panicked"
Bank_write_byte(bank, addr, offset, val) ==
    IF bank.kind = "Test" /\ bank.writeable /\ addr - offset < bank.size
    THEN [bank EXCEPT !.cells = MemWrite(@, addr - offset, val)]
    ELSE [bank EXCEPT !.kind = "Panicked"]

\* MemoryImpl::configure_banks: the loop over the configs
RECURSIVE configure(_, _)
configure(m, configs) ==
    IF configs = <<>> THEN MemReturned(m, -1)
    ELSE LET start_addr == Head(configs)[1]
             length == Head(configs)[2]
             bank_id == Head(configs)[3]
             target_offset == Head(configs)[4]
             start_page == start_addr \div 256
             end_page == start_page + (length \div 256) - 1
         IN  IF start_addr % 256 # 0 THEN MemPanicked(m)
             ELSE IF ~(length > 0 /\ length % 256 = 0) THEN MemPanicked(m)
             ELSE IF ~(start_addr >= target_offset) THEN MemPanicked(m)
             ELSE IF ~(end_page <= 255) THEN MemPanicked(m)
             ELSE configure(
                     [m EXCEPT !.map = MapFill(@, start_page..end_page,
                                               <<bank_id, start_addr - target_offset>>)],
                     Tail(configs))

\* MemoryImpl::configure_banks without map.fill((0, 0))
configure_banks_KeepMap(m, banks, configs) ==
    configure([m EXCEPT !.banks = banks], configs)

\* MemoryImpl::configure_banks
configure_banks(m, banks, configs) ==
    configure([m EXCEPT !.banks = banks, !.map = NoMap], configs)

\* MemoryImpl::read_byte that takes a page for banked once any bank is installed
MemoryImpl_read_byte_AnyBank(m, address) ==
    LET bank_id == IF m.banks = <<>> THEN 0 ELSE 1
        offset == MapAt(m, address \div 256)[2]
    IN  IF bank_id > 0
        THEN LET b == Bank_read_byte(m.banks[bank_id], address, offset)
             IN  IF b < 0 THEN MemPanicked(m) ELSE MemReturned(m, b)
        ELSE MemReturned(m, MemRead(m.ram, address))

\* MemoryImpl::read_byte; banks[bank_id - 1] panics past the end of banks
MemoryImpl_read_byte(m, address) ==
    LET bank_id == MapAt(m, address \div 256)[1]
        offset == MapAt(m, address \div 256)[2]
    IN  IF bank_id > 0
        THEN IF bank_id > Len(m.banks) THEN MemPanicked(m)
             ELSE LET b == Bank_read_byte(m.banks[bank_id], address, offset)
                  IN  IF b < 0 THEN MemPanicked(m) ELSE MemReturned(m, b)
        ELSE MemReturned(m, MemRead(m.ram, address))

\* MemoryImpl::write_byte that drops the write to a bank that is not writeable
MemoryImpl_write_byte_NoFallThrough(m, address, value) ==
    LET bank_id == MapAt(m, address \div 256)[1]
        offset == MapAt(m, address \div 256)[2]
    IN  IF bank_id > Len(m.banks) THEN MemPanicked(m)
        ELSE IF bank_id > 0
        THEN IF is_writeable(m.banks[bank_id], address - offset)
             THEN LET b == Bank_write_byte(m.banks[bank_id], address, offset, value)
                  IN  IF b.kind = "Panicked" THEN MemPanicked(m)
                      ELSE MemReturned([m EXCEPT !.banks[bank_id] = b], -1)
             ELSE MemReturned(m, -1)
        ELSE MemReturned([m EXCEPT !.ram = MemWrite(@, address, value)], -1)

\* MemoryImpl::write_byte that also writes the RAM cell under a writeable bank
MemoryImpl_write_byte_WriteThrough(m, address, value) ==
    LET bank_id == MapAt(m, address \div 256)[1]
        offset == MapAt(m, address \div 256)[2]
        through == [m EXCEPT !.ram = MemWrite(@, address, value)]
    IN  IF bank_id > Len(m.banks) THEN MemPanicked(m)
        ELSE IF bank_id > 0 /\ is_writeable(m.banks[bank_id], address - offset)
        THEN LET b == Bank_write_byte(m.banks[bank_id], address, offset, value)
             IN  IF b.kind = "Panicked" THEN MemPanicked(m)
                 ELSE MemReturned([through EXCEPT !.banks[bank_id] = b], -1)
        ELSE MemReturned(through, -1)

\* MemoryImpl::write_byte; banks[bank_id - 1] panics past the end of banks
MemoryImpl_write_byte(m, address, value) ==
    LET bank_id == MapAt(m, address \div 256)[1]
        offset == MapAt(m, address \div 256)[2]
    IN  IF bank_id > Len(m.banks) THEN MemPanicked(m)
        ELSE IF bank_id > 0 /\ is_writeable(m.banks[bank_id], address - offset)
        THEN LET b == Bank_write_byte(m.banks[bank_id], address, offset, value)
             IN  IF b.kind = "Panicked" THEN MemPanicked(m)
                 ELSE MemReturned([m EXCEPT !.banks[bank_id] = b], -1)
        ELSE MemReturned([m EXCEPT !.ram = MemWrite(@, address, value)], -1)

\* Memory::ram, the tests' view of the raw cell
Memory_ram(m, addr) == MemRead(m.ram, addr)

\* Memory::read_bank_byte, the tests' view of a bank; called on banks that exist
read_bank_byte(m, bank_id, addr, offset) == Bank_read_byte(m.banks[bank_id], addr, offset)

\* A thread in a call on the shared Memory (struct Memory, the Arc<Mutex>)
\* is [op, pc, start, data, i, locks, calls]: the method, where it is
\* ("idle", "waiting" for the lock, "locked", "done"), the first address,
\* the bytes to write or read so far, how many bytes it has done, how often
\* this call has taken the lock, and the calls the thread has made.
IdleThread ==
    [op |-> "none", pc |-> "idle", start |-> 0, data |-> <<>>, i |-> 0, locks |-> 0,
     calls |-> 0]

\* the bytes a method accesses under one lock() when it took the lock afresh
\* for every byte
GuardedBytes_One(th) == 1

\* self.0.lock().unwrap().read_block(start, data) and the like: the guard
\* returned by lock() is a temporary that lives to the end of the statement,
\* so every byte of the call is accessed under the one lock()
GuardedBytes(th) == Len(th.data)

\* MemoryImpl::read_block / write_block: the access to byte i of the block,
\* and the one access of read_byte / write_byte
BlockAccess(m, th) ==
    IF th.op \in {"write_byte", "write_block"}
    THEN MemoryImpl_write_byte(m, th.start + th.i, th.data[th.i + 1])
    ELSE MemoryImpl_read_byte(m, th.start + th.i)

---------------------------------------------------------------------------
(* Pins: enum Pin of core/mod.rs ("Pin"), OutputPort and InputPort of      *)
(* core/ports.rs ("Port").  A pin is [kind, value, chan]: kind is the      *)
(* variant of the enum, or "Output"/"Input" for a port whose sender or     *)
(* receiver is Some and "None" for one whose Option is None; "Dropped"     *)
(* once the pin is gone.  A channel is its queue and the two ends alive.   *)

\* mpsc::channel() and crossbeam_channel::unbounded()
NewChannel == [queue |-> <<>>, tx |-> TRUE, rx |-> TRUE]

\* Sender::send: the value is queued and Ok returned while the Receiver
\* lives, Err is returned once it is dropped
SendOk(chs, c) == chs[c].rx

send(chs, c, v) == IF SendOk(chs, c) THEN [chs EXCEPT ![c].queue = Append(@, v)] ELSE chs

\* a recv() that keeps blocking when the sender is gone
RecvBlocks_Disconnected(chs, c) == chs[c].queue = <<>>

\* Receiver::recv blocks while the queue is empty and the Sender lives; it
\* returns Ok with the oldest value while there is one, Err otherwise
RecvBlocks(chs, c) == chs[c].queue = <<>> /\ chs[c].tx

RecvOk(chs, c) == chs[c].queue # <<>>

\* the drop of the Sender or Receiver a pin holds
DropEnd(chs, pin) ==
    CASE pin.kind = "Output" -> [chs EXCEPT ![pin.chan].tx = FALSE]
      [] pin.kind = "Input" -> [chs EXCEPT ![pin.chan].rx = FALSE]
      [] OTHER -> chs

\* Pin::new, OutputPort::with_initial_value, InputPort::with_initial_value
NewPin(initial_value) == [kind |-> "None", value |-> initial_value, chan |-> 0]

\* how a call on a pin ends: it returns, or it panics
Returned(ps, chs, ret) ==
    [pins |-> ps, channels |-> chs, outcome |-> "returned", ret |-> ret]

Panicked(ps, chs) ==
    [pins |-> ps, channels |-> chs, outcome |-> "panicked", ret |-> -1]

\* Pin::connect_to without the check of the source
Pin_connect_to_Unchecked(ps, chs, source, target) ==
    LET c == Len(chs) + 1
        latched == ps[source].value
    IN  Returned([ps EXCEPT ![source] = [kind |-> "Output", value |-> latched, chan |-> c],
                            ![target] = [kind |-> "Input", value |-> latched, chan |-> c]],
                 Append(DropEnd(DropEnd(chs, ps[source]), ps[target]), NewChannel), -1)

\* Pin::connect_to that leaves the target's own latched value in place
Pin_connect_to_KeepTarget(ps, chs, source, target) ==
    IF ps[source].kind # "None" THEN Panicked(ps, chs)
    ELSE LET c == Len(chs) + 1
             latched == ps[source].value
         IN  Returned([ps EXCEPT ![source] = [kind |-> "Output", value |-> latched, chan |-> c],
                                 ![target] = [@ EXCEPT !.kind = "Input", !.chan = c]],
                      Append(DropEnd(chs, ps[target]), NewChannel), -1)

\* Pin::connect_to
Pin_connect_to(ps, chs, source, target) ==
    IF ps[source].kind # "None" THEN Panicked(ps, chs)
    ELSE LET c == Len(chs) + 1
             value == ps[source].value
         IN  Returned([ps EXCEPT ![source] = [kind |-> "Output", value |-> value, chan |-> c],
                                 ![target] = [kind |-> "Input", value |-> value, chan |-> c]],
                      Append(DropEnd(chs, ps[target]), NewChannel), -1)

\* Pin::update that ignores the result of send()
Pin_update_SendIgnored(ps, chs, p, new_value) ==
    CASE ps[p].kind = "Output" ->
            Returned([ps EXCEPT ![p].value = new_value],
                     send(chs, ps[p].chan, new_value), -1)
      [] ps[p].kind = "Input" -> Panicked(ps, chs)
      [] OTHER -> Returned(ps, chs, -1)

\* Pin::update whose Input arm is taken for the catch-all arm
Pin_update_InputIgnored(ps, chs, p, new_value) ==
    IF ps[p].kind = "Output"
    THEN LET ps1 == [ps EXCEPT ![p].value = new_value]
         IN  IF SendOk(chs, ps[p].chan)
             THEN Returned(ps1, send(chs, ps[p].chan, new_value), -1)
             ELSE Panicked(ps1, chs)
    ELSE Returned(ps, chs, -1)

\* Pin::update
Pin_update(ps, chs, p, new_value) ==
    CASE ps[p].kind = "Output" ->
            LET ps1 == [ps EXCEPT ![p].value = new_value]
            IN  IF SendOk(chs, ps[p].chan)
                THEN Returned(ps1, send(chs, ps[p].chan, new_value), -1)
                ELSE Panicked(ps1, chs)
      [] ps[p].kind = "Input" -> Panicked(ps, chs)
      [] OTHER -> Returned(ps, chs, -1)

\* Pin::wait that takes the newest value of the queue and discards the rest
Pin_wait_Newest(ps, chs, p) ==
    IF ps[p].kind = "Input"
    THEN LET c == ps[p].chan
             q == chs[c].queue
         IN  IF RecvOk(chs, c)
             THEN Returned([ps EXCEPT ![p].value = q[Len(q)]],
                           [chs EXCEPT ![c].queue = <<>>], q[Len(q)])
             ELSE Returned(ps, chs, ps[p].value)
    ELSE Panicked(ps, chs)

\* Pin::wait, called when recv() does not block
Pin_wait(ps, chs, p) ==
    IF ps[p].kind = "Input"
    THEN LET c == ps[p].chan
         IN  IF RecvOk(chs, c)
             THEN Returned([ps EXCEPT ![p].value = Head(chs[c].queue)],
                           [chs EXCEPT ![c].queue = Tail(@)], Head(chs[c].queue))
             ELSE Returned(ps, chs, ps[p].value)
    ELSE Panicked(ps, chs)

\* OutputPort::connect_to
OutputPort_connect_to(ps, chs, source, target) ==
    IF ps[source].kind = "Output" THEN Panicked(ps, chs)
    ELSE LET c == Len(chs) + 1
         IN  Returned([ps EXCEPT ![source] = [@ EXCEPT !.kind = "Output", !.chan = c],
                                 ![target] = [@ EXCEPT !.kind = "Input", !.chan = c]],
                      Append(DropEnd(chs, ps[target]), NewChannel), -1)

\* OutputPort::update that latches the value only when it was delivered
OutputPort_update_LatchDelivered(ps, chs, p, new_value) ==
    IF ps[p].kind = "Output" /\ SendOk(chs, ps[p].chan)
    THEN Returned([ps EXCEPT ![p].value = new_value],
                  send(chs, ps[p].chan, new_value), -1)
    ELSE Returned(ps, chs, -1)

\* OutputPort::update
OutputPort_update(ps, chs, p, new_value) ==
    LET ps1 == [ps EXCEPT ![p].value = new_value]
    IN  IF ps[p].kind = "Output"
        THEN Returned(ps1, send(chs, ps[p].chan, new_value), -1)
        ELSE Returned(ps1, chs, -1)

\* InputPort::wait that falls back to the default value on a closed channel
InputPort_wait_DefaultOnClose(ps, chs, p) ==
    IF ps[p].kind = "Input"
    THEN LET c == ps[p].chan
         IN  IF RecvOk(chs, c)
             THEN Returned([ps EXCEPT ![p].value = Head(chs[c].queue)],
                           [chs EXCEPT ![c].queue = Tail(@)], Head(chs[c].queue))
             ELSE Returned([ps EXCEPT ![p].value = 0], chs, 0)
    ELSE Panicked(ps, chs)

\* InputPort::wait, called when recv() does not block
InputPort_wait(ps, chs, p) ==
    IF ps[p].kind = "Input"
    THEN LET c == ps[p].chan
         IN  IF RecvOk(chs, c)
             THEN Returned([ps EXCEPT ![p].value = Head(chs[c].queue)],
                           [chs EXCEPT ![c].queue = Tail(@)], Head(chs[c].queue))
             ELSE Returned(ps, chs, ps[p].value)
    ELSE Panicked(ps, chs)

\* Select::recv for each port of the slice that has a receiver, in slice
\* order: the operations of the Select, as ports
Operations(ps, ports) == SelectSeq(ports, LAMBDA p : ps[p].kind = "Input")

\* an operation of a Select is ready once its recv() would not block
Ready(ps, chs, ports) ==
    {idx \in 0..(Len(Operations(ps, ports)) - 1) :
        ~RecvBlocks(chs, ps[Operations(ps, ports)[idx + 1]].chan)}

\* Select::select panics when no operation was added to it, and blocks
\* while none is ready
SelectPanics(ps, ports) == Operations(ps, ports) = <<>>

SelectBlocks(ps, chs, ports) == ~SelectPanics(ps, ports) /\ Ready(ps, chs, ports) = {}

\* InputPort::wait_any that returns the index of the operation instead of
\* the position in the slice
RECURSIVE wait_any_OperationIndex(_, _, _, _, _)
wait_any_OperationIndex(ps, chs, ports, i, idx) ==
    IF i >= Len(ports) THEN Returned(ps, chs, -1)
    ELSE LET p == ports[i + 1]
             c == ps[p].chan
         IN  IF ps[p].kind = "Input"
             THEN IF idx = 0
                  THEN IF RecvOk(chs, c)
                       THEN Returned([ps EXCEPT ![p].value = Head(chs[c].queue)],
                                     [chs EXCEPT ![c].queue = Tail(@)],
                                     Len(Operations(ps, SubSeq(ports, 1, i))))
                       ELSE Returned(ps, chs, -1)
                  ELSE wait_any_OperationIndex(ps, chs, ports, i + 1, idx - 1)
             ELSE wait_any_OperationIndex(ps, chs, ports, i + 1, idx)

\* InputPort::wait_any after select() selected operation idx: the loop over
\* the slice from position i on.  The result is Some(i) as i, None as -1
RECURSIVE wait_any(_, _, _, _, _)
wait_any(ps, chs, ports, i, idx) ==
    IF i >= Len(ports) THEN Returned(ps, chs, -1)
    ELSE LET p == ports[i + 1]
             c == ps[p].chan
         IN  IF ps[p].kind = "Input"
             THEN IF idx = 0
                  THEN IF RecvOk(chs, c)
                       THEN Returned([ps EXCEPT ![p].value = Head(chs[c].queue)],
                                     [chs EXCEPT ![c].queue = Tail(@)], i)
                       ELSE Returned(ps, chs, -1)
                  ELSE wait_any(ps, chs, ports, i + 1, idx - 1)
             ELSE wait_any(ps, chs, ports, i + 1, idx)

\* InputPort::wait_any, called when select() does not block
InputPort_wait_any(ps, chs, ports, idx) ==
    IF SelectPanics(ps, ports) THEN Panicked(ps, chs)
    ELSE wait_any(ps, chs, ports, 0, idx)

\* Pin::value, OutputPort::value, InputPort::value
value(ps, p) == ps[p].value

---------------------------------------------------------------------------
(* Bounds of the model.                                                    *)

\* the largest instruction_count given to CpuTest::run
MaxInstructions == 2
\* reset() calls on one CPU
MaxResets == 2
\* step() calls on one CPU outside the test harness
MaxSteps == 24

\* the largest number of connect_to, update and wait calls made on the pins
MaxConnects == 2
MaxUpdates == 2
MaxWaits == 3

\* the largest number of configure_banks and write_byte calls on a Memory
MaxConfigures == 2
MaxWrites == 2
\* the calls each thread sharing a Memory makes
MaxMemCalls == 2
\* step() calls on one CPU that is reset inside its instructions
MaxCycleSteps == 40

\* the largest number of turns a run loop of a component takes
MaxTicks == 4

\* the largest number of start() and stop() calls on a Computer
MaxComputerCalls == 3

---------------------------------------------------------------------------
(* Historical MOS 6502 timing, from the data sheet and not from the code.  *)

\* the cycle count of the MOS 6502 data sheet, before the penalties
HistoricalBase(opcode) ==
    CASE opcode \in {9, 10, 16, 24, 26, 41, 42, 48, 56, 58, 73, 74, 80, 88, 90, 105, 106, 112, 120,
         122, 128, 130, 136, 137, 138, 144, 152, 154, 160, 162, 168, 169, 170, 176, 184,
         186, 192, 194, 200, 201, 202, 208, 216, 218, 224, 226, 232, 233, 234, 240, 248,
         250} -> 2
      [] opcode \in {4, 5, 8, 36, 37, 68, 69, 72, 76, 100, 101, 132, 133, 134, 164, 165, 166, 196,
         197, 228, 229} -> 3
      [] opcode \in {12, 13, 20, 21, 25, 28, 29, 40, 44, 45, 52, 53, 57, 60, 61, 77, 84, 85, 89, 92,
         93, 104, 109, 116, 117, 121, 124, 125, 140, 141, 142, 148, 149, 150, 172, 173,
         174, 180, 181, 182, 185, 188, 189, 190, 204, 205, 212, 213, 217, 220, 221, 236,
         237, 244, 245, 249, 252, 253} -> 4
      [] opcode \in {6, 17, 38, 49, 70, 81, 102, 108, 113, 153, 157, 177, 198, 209, 230, 241} -> 5
      [] opcode \in {1, 14, 22, 32, 33, 46, 54, 64, 65, 78, 86, 96, 97, 110, 118, 129, 145, 161, 193,
         206, 214, 225, 238, 246} -> 6
      [] opcode \in {0, 30, 62, 94, 126, 222, 254} -> 7

\* reads that pay one cycle when the index carries into the high byte
PenaltyAbsX == {28, 29, 60, 61, 92, 93, 124, 125, 188, 189, 220, 221, 252, 253}

PenaltyAbsY == {25, 57, 89, 121, 185, 190, 217, 249}

PenaltyIndY == {17, 49, 81, 113, 177, 209, 241}

BranchOpcodes == {16, 48, 80, 112, 144, 176, 208, 240}

\* the condition of a branch opcode on the status register p
HistoricalTaken(opcode, p) ==
    CASE opcode = 16 -> ~HasFlag(p, SR_NEGATIVE)
      [] opcode = 48 -> HasFlag(p, SR_NEGATIVE)
      [] opcode = 80 -> ~HasFlag(p, SR_OVERFLOW)
      [] opcode = 112 -> HasFlag(p, SR_OVERFLOW)
      [] opcode = 144 -> ~HasFlag(p, SR_CARRY)
      [] opcode = 176 -> HasFlag(p, SR_CARRY)
      [] opcode = 208 -> ~HasFlag(p, SR_ZERO)
      [] opcode = 240 -> HasFlag(p, SR_ZERO)

\* the byte read as a signed 8-bit number
Signed(b) == IF b < 128 THEN b ELSE b - 256

\* where a taken branch at address a with operand b goes
BranchTarget(a, b) == (a + 2 + Signed(b) + 65536) % 65536

\* the cycles a branch at address a takes
HistoricalBranch(opcode, a, b, p) ==
    IF ~HistoricalTaken(opcode, p) THEN 2
    ELSE IF BranchTarget(a, b) \div 256 = ((a + 2) % 65536) \div 256 THEN 3
    ELSE 4

\* the historical cycle count of the instruction at c.pc in memory r
HistoricalCycles(c, r) ==
    LET opcode == MemRead(r, c.pc)
        b1 == MemRead(r, (c.pc + 1) % 65536)
    IN  CASE opcode \in BranchOpcodes -> HistoricalBranch(opcode, c.pc, b1, c.p)
          [] opcode \in PenaltyAbsX ->
                HistoricalBase(opcode) + (IF b1 + c.x > 255 THEN 1 ELSE 0)
          [] opcode \in PenaltyAbsY ->
                HistoricalBase(opcode) + (IF b1 + c.y > 255 THEN 1 ELSE 0)
          [] opcode \in PenaltyIndY ->
                HistoricalBase(opcode) + (IF MemRead(r, b1) + c.y > 255 THEN 1 ELSE 0)
          [] OTHER -> HistoricalBase(opcode)

---------------------------------------------------------------------------
(* History kept beside the program: what an instruction started from, and  *)
(* the program executed without the pipelined fetch.                       *)

\* one whole instruction from cycle 1, the opcode fetched in its own cycle and
\* nothing fetched ahead: RunInstruction runs a T-state, RunOn looks at its result
RECURSIVE RunInstruction(_), RunOn(_)
RunInstruction(s) ==
    IF s.panic THEN s
    ELSE IF s.cycle = 1 THEN RunInstruction(FetchOpcode(s))
    ELSE RunOn(Handler(s))

RunOn(r) ==
    IF r.panic THEN r
    ELSE IF r.act = "Continue" THEN RunInstruction([r EXCEPT !.cycle = r.cycle + 1])
    ELSE [r EXCEPT !.cycle = 1]

Snapshot(c, r, n) == [cpu |-> c, ram |-> r, steps |-> n]

\* total: the historical cycles of all the instructions that have finished;
\* prev: the registers the instruction before the last one started with
NoInstruction(c, r) ==
    [cpu |-> c, ram |-> r, steps |-> 0, action |-> "None", total |-> 0, prev |-> c]

---------------------------------------------------------------------------
(* Actions.                                                                *)

\* what a step() call that took the working record s to r leaves in the
\* variables; h is the handler's result before the cycle bookkeeping
StepEffect(s, r, h) ==
    /\ cpu' = CpuOf(r)
    /\ ram' = r.ram
    /\ panicked' = r.panic
    /\ last_action' = IF r.panic THEN "Panic" ELSE r.act
    /\ fetched' =
         CASE r.panic \/ s.state # "Running" -> fetched
           [] s.cycle = 1 -> Snapshot(cpu, ram, 1)
           [] r.act = "CompleteAndFetch" ->
                 Snapshot([CpuOf(h) EXCEPT !.cycle = 1], h.ram, 1)
           [] OTHER -> [fetched EXCEPT !.steps = @ + 1]
    /\ completed' =
         IF s.state = "Running" /\ ~r.panic /\ r.act \in {"Complete", "CompleteAndFetch"}
         THEN [cpu |-> fetched.cpu, ram |-> fetched.ram,
               steps |-> fetched.steps + 1, action |-> r.act,
               total |-> completed.total + HistoricalCycles(fetched.cpu, fetched.ram),
               prev |-> completed.cpu]
         ELSE completed
    /\ after_reset' =
         IF after_reset.called /\ after_reset.steps < 9
         THEN [after_reset EXCEPT !.steps = @ + 1]
         ELSE after_reset
    /\ UNCHANGED overflow_checks

\* the effect of one step() call on the CPU, the memory and the histories
StepCall ==
    /\ ~panicked
    /\ StepEffect(Working(cpu, ram), step(Working(cpu, ram)),
                  IF cpu.state = "Running" /\ cpu.cycle > 1
                  THEN Handler(Working(cpu, ram)) ELSE Working(cpu, ram))

\* C6502::reset, called by the owner of the CPU at any moment
Reset ==
    /\ ~panicked
    /\ calls.resets < MaxResets
    /\ cpu' = CpuOf(reset(Working(cpu, ram)))
    /\ calls' = [calls EXCEPT !.last = "reset", !.resets = @ + 1]
    /\ after_reset' = [called |-> TRUE, steps |-> 0, ram |-> ram,
                       state |-> cpu.state, cycle |-> cpu.cycle]
    /\ UNCHANGED <<ram, overflow_checks, panicked, last_action, cputest, fetched,
                   completed, reference>>
    /\ UNCHANGED <<pinvars, memvars, runvars>>

\* C6502::step, called by the owner of the CPU
Step ==
    /\ calls.steps < MaxSteps
    /\ StepCall
    /\ calls' = [calls EXCEPT !.last = "step", !.steps = @ + 1]
    /\ UNCHANGED <<cputest, reference>>
    /\ UNCHANGED <<pinvars, memvars, runvars>>

\* one iteration of the inner loop of CpuTest::run, with the loop exit and
\* the final adjustment of cycles when the iteration is the last one
RunStep ==
    /\ cputest.left > 0
    /\ StepCall
    /\ calls' = [calls EXCEPT !.last = "step", !.steps = @ + 1]
    /\ LET ended == ~panicked' /\ last_action' # "Continue"
           left == IF ended THEN cputest.left - 1 ELSE cputest.left
           cycles == cputest.cycles + 1
       IN  /\ cputest' =
                [cycles |-> IF left = 0 /\ last_action' = "CompleteAndFetch"
                            THEN cycles - 1 ELSE cycles,
                 left |-> left,
                 done |-> left = 0]
           /\ reference' =
                IF ended THEN RunInstruction(reference) ELSE reference
    /\ UNCHANGED <<pinvars, memvars, runvars>>

---------------------------------------------------------------------------
(* Initial states.                                                         *)

NoCalls == [last |-> "new", resets |-> 0, steps |-> 0]

\* no call on a pin yet
NoPinCall ==
    [op |-> "new", pin |-> 0, target |-> 0, arg |-> 0, outcome |-> "returned", ret |-> -1]

\* log: per pin, the values passed to update() and returned by wait() since
\* connect_to bound the pin to its channel; then the calls made so far and
\* the slice given to the last wait_any
NoPinHistory(ids) ==
    [log |-> [p \in ids |-> [updates |-> <<>>, waits |-> <<>>]],
     connects |-> 0, updates |-> 0, waits |-> 0, ports |-> <<>>]

\* no call on the memory yet; configs are those of the last configure_banks
NoMemCall ==
    [op |-> "new", thread |-> 0, address |-> 0, value |-> 0, configs |-> <<>>,
     outcome |-> "returned", ret |-> -1, configures |-> 0, writes |-> 0]

\* a system whose memory has no bank and is shared with no other thread
NoBanks ==
    /\ memory = Memory_new
    /\ mem_lock = 0
    /\ mem_threads = <<>>
    /\ mem_call = NoMemCall

\* Clock::new; at is where its thread is: "Initial" until Computer::start
\* history: toggles, how often run has passed its stop check; emitted, the
\* values run has passed to the output; late, the toggles made while the
\* stop flag was already set
Clock_new ==
    [state |-> 0, tick_count |-> 0, stop |-> FALSE, at |-> "Initial", toggles |-> 0,
     emitted |-> <<>>, late |-> 0]

\* a component that Computer::start has not moved into a thread; signal is
\* the local of C6502::run; history: late, the step() calls made while the
\* stop flag was already set
NoThread ==
    [stop |-> FALSE, at |-> "Initial", cycles |-> 0, turns |-> <<>>,
     signal |-> FALSE, previous |-> FALSE, late |-> 0]

\* Computer::new; build is the revision of the Computer: "PerComponent" has
\* a stop flag per component and unwraps the joins (rustycoat/src/core),
\* "Shared" has one flag and ignores the result of the joins (src/core).
\* owner is where the thread that owns the Computer is: the call it is in,
\* the phase of that call and the slot it is at.  History: spawned, the
\* threads start() has spawned per component; call, the last call and the
\* states of the slots when it began and when it ended; calls, their number
Computer_new(build) ==
    [build |-> build, slots |-> <<>>, stop |-> FALSE,
     owner |-> [op |-> "idle", phase |-> "none", i |-> 0],
     spawned |-> [c \in {"cpu", "clock"} |-> 0],
     call |-> [op |-> "new", outcome |-> "returned", before |-> <<>>, after |-> <<>>],
     calls |-> 0]

\* a system none of whose components runs in a thread of a Computer
NoThreads ==
    /\ cpu_thread = NoThread
    /\ clock = Clock_new
    /\ computer = Computer_new("PerComponent")

\* a CPU on its own: no pin has been created
NoPins ==
    /\ pin_impl = "Port"
    /\ pins = <<>>
    /\ channels = <<>>
    /\ pin_call = NoPinCall
    /\ pin_history = NoPinHistory({})

\* no reset() yet: the fields are those of the CPU and memory as constructed
NoReset(c, image) ==
    [called |-> FALSE, steps |-> 0, ram |-> image, state |-> c.state, cycle |-> c.cycle]

\* CpuTest::run up to its loop: the registers copied into the CPU of
\* CpuTest::new, the state forced to Running, over the memory the with_*
\* builders wrote
HarnessInit(image, regs, count, checks) ==
    LET c == [NewCpu EXCEPT !.pc = regs.pc, !.ac = regs.ac, !.x = regs.x, !.y = regs.y,
                            !.sp = regs.sp, !.p = regs.p, !.state = "Running"]
    IN  /\ cpu = c
        /\ ram = image
        /\ overflow_checks = checks
        /\ panicked = FALSE
        /\ calls = NoCalls
        /\ last_action = "None"
        /\ cputest = [cycles |-> 0, left |-> count, done |-> FALSE]
        /\ fetched = Snapshot(c, image, 0)
        /\ completed = NoInstruction(c, image)
        /\ reference = Working(c, image)
        /\ after_reset = NoReset(c, image)
        /\ NoPins
        /\ NoBanks
        /\ NoThreads

\* CpuTest::new
TestRegs == [pc |-> 1024, ac |-> 0, x |-> 0, y |-> 0, sp |-> 255, p |-> 0]

\* the byte a test stores at an address it wants to recognise: different for
\* neighbouring addresses and for the same offset of neighbouring pages
Marker(a) == ((a % 256) * 3 + (a \div 256) * 5 + 7) % 256

\* with_data: the markers at the addresses in `cells`
DataImage(cells) == [a \in {c \in cells : Marker(c) # 0} |-> Marker(a)]

\* $HHLL
WordOf(lo, hi) == hi * 256 + lo

\* base + index with the carry into the high byte dropped
NoCarryAdd(base, index) == (base - (base % 256)) + ((base + index) % 256)

\* the cells an instruction with operand bytes b1 b2 can reach from these registers
Reachable(b1, b2, regs) ==
    LET abs == WordOf(b1, b2)
        zp(i) == (b1 + i) % 256
        ptr(z) == WordOf(Marker(z), Marker((z + 1) % 256))
    IN  {zp(0), zp(1), zp(regs.x), zp(regs.x + 1), zp(regs.y)}
        \cup {abs, (abs + 1) % 65536, NoCarryAdd(abs, 1),
              (abs + regs.x) % 65536, NoCarryAdd(abs, regs.x),
              (abs + regs.y) % 65536, NoCarryAdd(abs, regs.y)}
        \cup {ptr(zp(regs.x)), (ptr(zp(0)) + regs.y) % 65536, NoCarryAdd(ptr(zp(0)), regs.y)}
        \cup {STACK_BASE + i : i \in {j \in (regs.sp - 1)..(regs.sp + 3) : j \in Byte}}
        \cup {IRQ_VECTOR, IRQ_VECTOR + 1}

\* with_data(...).with_instruction(&[opcode, b1, b2]) at regs.pc
OneInstruction(opcode, b1, b2, regs) ==
    [a \in Reachable(b1, b2, regs) \cup {(regs.pc + i) % 65536 : i \in 0..2} |->
        CASE a = regs.pc -> opcode
          [] a = (regs.pc + 1) % 65536 -> b1
          [] a = (regs.pc + 2) % 65536 -> b2
          [] OTHER -> Marker(a)]

\* the sparse form of a memory image: only the cells that are not zero
Sparse(image) == [a \in {c \in DOMAIN image : image[c] # 0} |-> image[a]]

---------------------------------------------------------------------------
(* SpecRun: every opcode of the dispatch table, run as one instruction by  *)
(* CpuTest::run_one from cycle 1.                                          *)

RunOperands == {<<16, 18>>, <<255, 18>>, <<128, 255>>, <<0, 18>>}
RunIndexes == {<<1, 2>>, <<144, 129>>}
RunFlags == {0, 195}
RunStacks == {255, 128, 2}

InitRun ==
    \E opcode \in DOMAIN OpTable, b \in RunOperands, i \in RunIndexes,
       p0 \in RunFlags, sp0 \in RunStacks, checks \in BOOLEAN :
        LET regs == [TestRegs EXCEPT !.ac = 72, !.x = i[1], !.y = i[2],
                                     !.p = p0, !.sp = sp0]
        IN  HarnessInit(Sparse(OneInstruction(opcode, b[1], b[2], regs)), regs, 1, checks)

NextRun == RunStep

SpecRun == InitRun /\ [][NextRun]_vars

---------------------------------------------------------------------------
(* The instruction CpuTest::run_one has run, seen through the histories.   *)

\* run() has returned
Finished == cputest.done /\ ~panicked

\* the instruction that finished last: its address, opcode and operand bytes
StartPc == completed.cpu.pc
StartOpcode == MemRead(completed.ram, StartPc)
Operand1 == MemRead(completed.ram, (StartPc + 1) % 65536)
Operand2 == MemRead(completed.ram, (StartPc + 2) % 65536)

\* 1 when the instruction's last step() also latched the next opcode
FetchAhead == IF completed.action = "CompleteAndFetch" THEN 1 ELSE 0

---------------------------------------------------------------------------
(* C2                                                                      *)

\* C2 as the text states it: the step() calls from the call that fetches an
\* instruction's opcode through the call that returns Complete or
\* CompleteAndFetch number its historical cycle count
C2_StepCallsEqualHistorical ==
    Finished => completed.steps = HistoricalCycles(completed.cpu, completed.ram)

\* C2 amended: the step() calls of an instruction, from the call that fetches
\* its opcode at cycle 1 through the call that ends it, number its historical
\* cycle count when that call returns Complete and one more when it returns
\* CompleteAndFetch (the call that also latches the next opcode)
C2_StepCallsHistoricalPlusFetchAhead ==
    Finished =>
        completed.steps = HistoricalCycles(completed.cpu, completed.ram) + FetchAhead

\* an absolute,X read that crossed a page has finished
C2_Witness ==
    /\ Finished
    /\ StartOpcode = 189
    /\ Operand1 + completed.cpu.x > 255
    /\ completed.steps = 6

---------------------------------------------------------------------------
(* C3                                                                      *)

\* the counts of the table of addressing modes, by handler and Op kind
ModeCycles(h, k) ==
    CASE h \in {"do_op_immed", "do_op_implied", "do_op_ac"} -> {2}
      [] h = "do_op_zeropage" -> IF k = "ReadWrite" THEN {5} ELSE {3}
      [] h \in {"do_op_zeropage_x", "do_op_zeropage_y", "do_op_abs"} ->
            IF k = "ReadWrite" THEN {6} ELSE {4}
      [] h \in {"do_op_abs_x", "do_op_abs_y"} ->
            CASE k = "ReadWrite" -> {7} [] k = "Write" -> {5} [] OTHER -> {4, 5}
      [] h = "do_op_indexed_indirect" -> {6}
      [] h = "do_op_indirect_indexed" -> IF k = "Write" THEN {6} ELSE {5, 6}

AddressingHandlers ==
    {"do_op_immed", "do_op_implied", "do_op_ac", "do_op_zeropage", "do_op_zeropage_x",
     "do_op_zeropage_y", "do_op_abs", "do_op_abs_x", "do_op_abs_y",
     "do_op_indexed_indirect", "do_op_indirect_indexed"}

\* C3: for one instruction run from cycle 1, the step() calls up to the first
\* result that is not Continue, less one when that result is CompleteAndFetch,
\* are the count the table gives for its addressing mode and kind of operation,
\* and that is the cycle count CpuTest::run reports
C3_AddressingModeCycles ==
    (Finished /\ OpTable[StartOpcode].h \in AddressingHandlers) =>
        /\ completed.steps - FetchAhead
              \in ModeCycles(OpTable[StartOpcode].h, OpTable[StartOpcode].op.k)
        /\ cputest.cycles = completed.steps - FetchAhead

\* a zero page,X read-modify-write (INC $zp,X) has finished in 6 cycles
C3_Witness ==
    /\ Finished
    /\ StartOpcode = 246
    /\ cputest.cycles = 6
    /\ completed.action = "Complete"

---------------------------------------------------------------------------
(* C6                                                                      *)

\* the Zero and Negative flags of p are those of the byte val
FlagsFrom(p, val) ==
    /\ HasFlag(p, SR_ZERO) <=> (val = 0)
    /\ HasFlag(p, SR_NEGATIVE) <=> (val >= 128)

\* C6 as the text states it: LDA #imm run from cycle 1 takes 2 cycles and
\* leaves AC = operand, Z and N from the operand and PC = its address + 2
C6_LdaImmediatePcPlus2 ==
    (Finished /\ StartOpcode = 169) =>
        /\ cputest.cycles = 2
        /\ cpu.ac = Operand1
        /\ FlagsFrom(cpu.p, Operand1)
        /\ cpu.pc = (StartPc + 2) % 65536

\* C6 amended: LDA #imm run from cycle 1 takes 2 cycles (3 step() calls, the
\* last returning CompleteAndFetch) and leaves AC = operand, Z and N from the
\* operand, and PC = its address + 3: one past the next opcode, which is
\* already latched with the cycle counter at 2
C6_LdaImmediate ==
    (Finished /\ StartOpcode = 169) =>
        /\ cputest.cycles = 2
        /\ completed.steps = 3
        /\ last_action = "CompleteAndFetch"
        /\ cpu.ac = Operand1
        /\ FlagsFrom(cpu.p, Operand1)
        /\ cpu.pc = (StartPc + 3) % 65536
        /\ cpu.opcode = MemRead(ram, (StartPc + 2) % 65536)
        /\ cpu.cycle = 2

\* LDA #$FF has finished over an accumulator that held something else
C6_Witness ==
    /\ Finished
    /\ StartOpcode = 169
    /\ Operand1 = 255
    /\ completed.cpu.ac # 255
    /\ cpu.ac = 255

---------------------------------------------------------------------------
(* C10                                                                     *)

\* the BRK that is executing or has just finished, and the calls made for it
InBrk(n) ==
    /\ ~panicked
    /\ MemRead(fetched.ram, fetched.cpu.pc) = 0
    /\ fetched.steps = n

BrkReturn == (fetched.cpu.pc + 2) % 65536

\* the stack cell k pushes below the stack pointer BRK started with
BrkCell(k) == MemRead(ram, STACK_BASE + fetched.cpu.sp - k)

\* C10: BRK at address a takes 7 cycles; its pushes happen in the order high
\* byte of a+2 (cycle 3), low byte of a+2 (cycle 4), P with Break and Unused
\* set (cycle 5), each at $0100+SP before SP goes down by one; SP ends 3 lower
\* and PC is the little-endian word at $FFFE/$FFFF
C10_Brk ==
    /\ InBrk(3) => /\ cpu.sp = fetched.cpu.sp - 1
                   /\ BrkCell(0) = hi_byte(BrkReturn)
    /\ InBrk(4) => /\ cpu.sp = fetched.cpu.sp - 2
                   /\ BrkCell(0) = hi_byte(BrkReturn)
                   /\ BrkCell(1) = lo_byte(BrkReturn)
    /\ \A n \in 5..7 :
         InBrk(n) => /\ cpu.sp = fetched.cpu.sp - 3
                     /\ BrkCell(0) = hi_byte(BrkReturn)
                     /\ BrkCell(1) = lo_byte(BrkReturn)
                     /\ BrkCell(2) = BitOr(fetched.cpu.p, SR_BREAK + SR_UNUSED)
    /\ \A n \in 2..6 : InBrk(n) => last_action = "Continue"
    /\ InBrk(7) =>
         /\ last_action = "Complete"
         /\ cputest.cycles = 7
         /\ cpu.pc = WordOf(MemRead(ram, IRQ_VECTOR), MemRead(ram, IRQ_VECTOR + 1))
         /\ cpu.p = fetched.cpu.p

\* BRK has finished with a status register that had neither Break nor Unused
C10_Witness ==
    /\ InBrk(7)
    /\ Finished
    /\ fetched.cpu.sp = 128
    /\ ~HasFlag(fetched.cpu.p, SR_BREAK)
    /\ BrkCell(2) = fetched.cpu.p + SR_BREAK + SR_UNUSED
    /\ cpu.sp = 125

---------------------------------------------------------------------------
(* SpecBranch: every branch opcode with every operand byte, from starting  *)
(* addresses in the middle of a page, at its end and at both ends of       *)
(* memory, run as one instruction by CpuTest::run_one.                     *)

BranchPcs == {1024, 1277, 1278, 0, 65533, 65534}
BranchFlags == {0, 195}

\* with_pc(pc).with_instruction(&[opcode, operand])
InitBranch ==
    \E opcode \in {o \in DOMAIN OpTable : OpTable[o].h = "do_branch"},
       operand \in Byte, pc0 \in BranchPcs, p0 \in BranchFlags, checks \in BOOLEAN :
        HarnessInit(write_block(EmptyRam, pc0, <<opcode, operand>>),
                    [TestRegs EXCEPT !.pc = pc0, !.p = p0], 1, checks)

SpecBranch == InitBranch /\ [][NextRun]_vars

\* the address of the instruction after the 2-byte instruction at a
NextInstruction(a) == (a + 2) % 65536

\* the branch in flight or just finished
InBranch == fetched.steps >= 1 /\ MemRead(fetched.ram, fetched.cpu.pc) \in BranchOpcodes

\* what a branch that has finished leaves: not taken, 2 cycles and PC at the
\* next instruction; taken, PC at the next instruction's address plus the
\* operand read as a signed 8-bit offset (modulo 2^16), in 3 cycles when that
\* target has the high byte of the next instruction's address and 4 otherwise;
\* every branch ends with Complete, so the cycles are its step() calls
BranchDone ==
    (Finished /\ StartOpcode \in BranchOpcodes) =>
        /\ last_action = "Complete"
        /\ cputest.cycles = completed.steps
        /\ IF ~HistoricalTaken(StartOpcode, completed.cpu.p)
           THEN /\ cputest.cycles = 2
                /\ cpu.pc = NextInstruction(StartPc)
           ELSE /\ cpu.pc = BranchTarget(StartPc, Operand1)
                /\ cputest.cycles =
                     IF hi_byte(BranchTarget(StartPc, Operand1))
                          = hi_byte(NextInstruction(StartPc))
                     THEN 3 ELSE 4

\* C8: for every branch opcode, operand byte and starting PC the branch runs to
\* its end (no starting PC makes it abort), taking 2 cycles with PC at the next
\* instruction when its condition is false, and 3 or 4 cycles with PC at the
\* next instruction plus the signed operand when it is taken
C8_Branch ==
    /\ InBranch => ~panicked
    /\ BranchDone

\* C8 for the branches the code completes: every branch that returns Complete
\* took the stated cycles and left the stated PC, and only a build with
\* overflow checks aborts
C8_BranchCompleted == BranchDone /\ (panicked => overflow_checks)

\* a branch at $FFFE has aborted in the cycle that reads its operand
C8_PanicWitness ==
    /\ panicked
    /\ InBranch
    /\ fetched.cpu.pc = 65534
    /\ fetched.steps = 1
    /\ overflow_checks

\* a taken backward branch from the start of a page has finished on the page
\* before, in 4 cycles
C8_CompletedWitness ==
    /\ Finished
    /\ StartOpcode = 208
    /\ StartPc = 1278
    /\ Operand1 = 253
    /\ cpu.pc = 1277
    /\ cputest.cycles = 4

---------------------------------------------------------------------------
(* SpecJmp: JMP (abs) through pointers in the middle, at the start and at  *)
(* the end of a page, in the first and the last page of memory, run as one *)
(* instruction by CpuTest::run_one.                                        *)

JmpLows == {0, 1, 127, 254, 255}
JmpHighs == {0, 16, 31, 254, 255}
JmpTargetLows == {0, 72}
JmpTargetHighs == {32, 255}
JmpOtherBytes == {0, 86}

\* the cell JMP (abs) reads the high byte of its target from
WrappedNext(ptr) == (ptr - (ptr % 256)) + ((ptr + 1) % 256)

\* with_instruction(&[0x6C, LL, HH]) and with_data for the pointer's two cells
\* and the byte that follows the pointer in memory
InitJmp ==
    \E ll \in JmpLows, hh \in JmpHighs, lo \in JmpTargetLows, hi \in JmpTargetHighs,
       other \in JmpOtherBytes, checks \in BOOLEAN :
        LET ptr == WordOf(ll, hh)
            image == write_block(
                         MemWrite(MemWrite(MemWrite(EmptyRam, (ptr + 1) % 65536, other),
                                           WrappedNext(ptr), hi),
                                  ptr, lo),
                         TestRegs.pc, <<108, ll, hh>>)
        IN  HarnessInit(image, TestRegs, 1, checks)

SpecJmp == InitJmp /\ [][NextRun]_vars

\* the JMP (abs) in flight or just finished, and its pointer
InJmpIndirect == fetched.steps >= 1 /\ MemRead(fetched.ram, fetched.cpu.pc) = 108

JmpPointer ==
    WordOf(MemRead(fetched.ram, (fetched.cpu.pc + 1) % 65536),
           MemRead(fetched.ram, (fetched.cpu.pc + 2) % 65536))

\* what a JMP (abs) that has finished leaves: 5 cycles, PC low from the
\* pointer's cell and PC high from the next cell of the pointer's page
JmpIndirectDone ==
    (Finished /\ InJmpIndirect) =>
        /\ cputest.cycles = 5
        /\ completed.steps = 5
        /\ last_action = "Complete"
        /\ lo_byte(cpu.pc) = MemRead(ram, JmpPointer)
        /\ hi_byte(cpu.pc) = MemRead(ram, WrappedNext(JmpPointer))
        /\ JmpPointer % 256 = 255 =>
              hi_byte(cpu.pc) = MemRead(ram, hi_byte(JmpPointer) * 256)
        /\ JmpPointer % 256 # 255 =>
              hi_byte(cpu.pc) = MemRead(ram, JmpPointer + 1)

\* C9: JMP (abs) with pointer $HHLL takes 5 cycles and sets PC low from
\* memory[$HHLL] and PC high from memory[$HH00 + ((LL + 1) mod 256)], for every
\* pointer: from $XX00 when the pointer is $XXFF and from the next address
\* otherwise; no pointer makes the instruction abort
C9_JmpIndirect ==
    /\ InJmpIndirect => ~panicked
    /\ JmpIndirectDone

\* C9 for the pointers the code completes on: every JMP (abs) that returns
\* Complete took 5 cycles and loaded PC from the pointer's cell and the
\* page-wrapped next cell
C9_JmpIndirectCompleted == JmpIndirectDone /\ (panicked => overflow_checks)

\* JMP ($1FFF) has finished with the high byte of $1F00, which differs from the
\* byte at $2000
C9_Witness ==
    /\ Finished
    /\ InJmpIndirect
    /\ JmpPointer = 8191
    /\ MemRead(ram, 7936) # MemRead(ram, 8192)
    /\ hi_byte(cpu.pc) = MemRead(ram, 7936)

\* JMP ($FFFF) has aborted in its 5th cycle
C9_PanicWitness ==
    /\ panicked
    /\ InJmpIndirect
    /\ JmpPointer = 65535
    /\ overflow_checks
    /\ fetched.steps = 4

---------------------------------------------------------------------------
(* SpecIndexed: every absolute,X, absolute,Y and (indirect),Y opcode over  *)
(* base addresses and index values with and without a carry out of the low *)
(* byte, in the first, a middle and the last page of memory, run as one    *)
(* instruction by CpuTest::run_one.                                        *)

IndexedHandlers == {"do_op_abs_x", "do_op_abs_y", "do_op_indirect_indexed"}
IndexedOpcodes == {o \in DOMAIN OpTable : OpTable[o].h \in IndexedHandlers}
BaseLows == {0, 1, 128, 255}
BaseHighs == {0, 18, 255}
IndexValues == {0, 1, 127, 128, 255}

\* the zero-page cells the (indirect),Y instructions name: one in the middle of
\* the page and the last one, whose high byte is in cell $00
PointerCells == {32, 255}

\* with_instruction(&[opcode, ..]) with the base address as the operand, or in
\* the pointer cell for (indirect),Y, and with_data markers at base + index
\* and at the address a dropped carry would give
InitIndexed ==
    \E opcode \in IndexedOpcodes, lo \in BaseLows, hi \in BaseHighs,
       index \in IndexValues, ptr \in PointerCells, checks \in BOOLEAN :
        LET base == WordOf(lo, hi)
            data == DataImage({(base + index) % 65536, NoCarryAdd(base, index)})
            image == IF OpTable[opcode].h = "do_op_indirect_indexed"
                     THEN write_block(
                              MemWrite(MemWrite(data, ptr, lo), (ptr + 1) % 256, hi),
                              TestRegs.pc, <<opcode, ptr>>)
                     ELSE write_block(data, TestRegs.pc, <<opcode, lo, hi>>)
        IN  HarnessInit(image, [TestRegs EXCEPT !.ac = 72, !.x = index, !.y = index],
                        1, checks)

SpecIndexed == InitIndexed /\ [][NextRun]_vars

\* an indexed instruction is in flight
InIndexed ==
    /\ fetched.steps >= 1
    /\ MemRead(fetched.ram, fetched.cpu.pc) \in IndexedOpcodes

\* of the instruction that started from the snapshot i: its dispatch entry, its
\* operand bytes, the base address it names and the index register it adds
IndexedEntry(i) == OpTable[MemRead(i.ram, i.cpu.pc)]

IndexedOperand(i, n) == MemRead(i.ram, (i.cpu.pc + n) % 65536)

IndexedBase(i) ==
    IF IndexedEntry(i).h = "do_op_indirect_indexed"
    THEN WordOf(MemRead(i.ram, IndexedOperand(i, 1)),
                MemRead(i.ram, (IndexedOperand(i, 1) + 1) % 256))
    ELSE WordOf(IndexedOperand(i, 1), IndexedOperand(i, 2))

IndexedBy(i) == IF IndexedEntry(i).h = "do_op_abs_x" THEN i.cpu.x ELSE i.cpu.y

\* adding the index to the low byte of the base carries into the high byte
IndexCarries(i) == (IndexedBase(i) % 256) + IndexedBy(i) > 255

\* base + index, in the 16 bits of an address
EffectiveAddress(i) == (IndexedBase(i) + IndexedBy(i)) % 65536

\* the cycles of the mode without the fix-up cycle, for a read
IndexedReadCycles(i) == IF IndexedEntry(i).h = "do_op_indirect_indexed" THEN 5 ELSE 4

\* what the indexed instruction started from i has left, by its Op kind k
IndexedResult(i, k) ==
    /\ cpu.addr = EffectiveAddress(i)
    /\ CASE k = "Read" ->
              /\ cputest.cycles = IndexedReadCycles(i) + (IF IndexCarries(i) THEN 1 ELSE 0)
              /\ cpu.value = MemRead(i.ram, EffectiveAddress(i))
              /\ ram = i.ram
         [] k = "Implied" ->
              /\ cputest.cycles = IndexedReadCycles(i) + (IF IndexCarries(i) THEN 1 ELSE 0)
              /\ ram = i.ram
         [] k = "Write" ->
              /\ cputest.cycles = IndexedReadCycles(i) + 1
              /\ ram = MemWrite(i.ram, EffectiveAddress(i),
                                OpWrite(IndexedEntry(i).op.f, Working(i.cpu, i.ram)).ret)
         [] k = "ReadWrite" ->
              /\ cputest.cycles = IndexedReadCycles(i) + 3
              /\ ram = MemWrite(i.ram, EffectiveAddress(i),
                                OpReadWrite(IndexedEntry(i).op.f, Working(i.cpu, i.ram),
                                            MemRead(i.ram, EffectiveAddress(i))).ret)

\* what an indexed instruction that has finished leaves
IndexedDone ==
    (Finished /\ StartOpcode \in IndexedOpcodes) =>
        IndexedResult(completed, IndexedEntry(completed).op.k)

\* C4: for absolute,X, absolute,Y and (indirect),Y addressing, for every base
\* address and index value, the instruction runs to its end (none aborts): a
\* Read or Implied operation takes one extra cycle exactly when the index
\* carries out of the base's low byte, a Write or ReadWrite operation always
\* takes the fix-up cycle, and the operand is read from or written to
\* base + index
C4_IndexedAddressing ==
    /\ InIndexed => ~panicked
    /\ IndexedDone

\* C4 for the instructions the code completes: the cycles and the operand's
\* address are as stated (base + index modulo 2^16), and only a build with
\* overflow checks aborts
C4_IndexedCompleted == IndexedDone /\ (panicked => overflow_checks)

\* LDA $12FF,X with X = 1 has finished in 5 cycles with the byte of $1300
C4_CompletedWitness ==
    /\ Finished
    /\ StartOpcode = 189
    /\ IndexedBase(completed) = 4863
    /\ IndexedBy(completed) = 1
    /\ cputest.cycles = 5
    /\ cpu.ac = Marker(4864)
    /\ Marker(4864) # Marker(4608)

\* LDA $FF80,X with X = $80 has aborted in the fix-up cycle
C4_PanicWitness ==
    /\ panicked
    /\ InIndexed
    /\ MemRead(fetched.ram, fetched.cpu.pc) = 189
    /\ IndexedBase(fetched) = 65408
    /\ IndexedBy(fetched) = 128
    /\ fetched.steps = 3
    /\ overflow_checks

---------------------------------------------------------------------------
(* Spec: a CPU built by C6502::new over a memory that holds a program and  *)
(* a reset vector, and an owner that calls reset() and step() in any order.*)

\* LDA #$48; STA $20; INC $20; PHA; PLA; JMP $E000
ProgramLoop == <<169, 72, 133, 32, 230, 32, 72, 104, 76, 0, 224>>
\* JSR $E005; NOP; NOP; RTS: the second RTS finds the stack empty
ProgramCall == <<32, 5, 224, 234, 234, 96>>
\* LDX #$FF; TXS; LDA $12FF,X; BNE *-3
ProgramIndexed == <<162, 255, 154, 189, 255, 18, 208, 251>>
\* an opcode the dispatch table does not have
ProgramIllegal == <<234, 2>>

Programs == {ProgramLoop, ProgramCall, ProgramIndexed, ProgramIllegal}
ProgramBase == {57344}
ResetVectors == {<<0, 224>>, <<52, 18>>}

\* the CPU and its memory of that machine
CpuInit(image, checks) ==
    /\ cpu = NewCpu
    /\ ram = image
    /\ overflow_checks = checks
    /\ panicked = FALSE
    /\ calls = NoCalls
    /\ last_action = "None"
    /\ cputest = [cycles |-> 0, left |-> 0, done |-> FALSE]
    /\ fetched = Snapshot(NewCpu, image, 0)
    /\ completed = NoInstruction(NewCpu, image)
    /\ reference = Working(NewCpu, image)
    /\ after_reset = NoReset(NewCpu, image)

\* C6502::new over Memory::new, after write_block of a program and a vector
MachineInit(image, checks) ==
    /\ CpuInit(image, checks)
    /\ NoPins
    /\ NoBanks
    /\ NoThreads

Init ==
    \E prog \in Programs, base \in ProgramBase, v \in ResetVectors, checks \in BOOLEAN :
        MachineInit(write_block(write_block(EmptyRam, base, prog), RESET_VECTOR, v),
                    checks)

Next == Reset \/ Step

Spec == Init /\ [][Next]_vars

---------------------------------------------------------------------------
(* C7                                                                      *)

ResetVectorWord == WordOf(MemRead(ram, RESET_VECTOR), MemRead(ram, RESET_VECTOR + 1))

\* C7: from any CPU state, reset() and then 8 step() calls: the first 7 return
\* Continue with the state Resetting, the 8th returns Complete and leaves the
\* state Running, SP = $FD, PC = the little-endian word at $FFFC/$FFFD and
\* the cycle counter at 1; none of the 8 calls aborts or writes memory
C7_ResetSequence ==
    (after_reset.called /\ after_reset.steps <= 8) =>
        /\ ~panicked
        /\ ram = after_reset.ram
        /\ after_reset.steps = 0 => (cpu.state = "Resetting" /\ calls.last = "reset")
        /\ after_reset.steps \in 1..7 =>
              /\ cpu.state = "Resetting"
              /\ last_action = "Continue"
              /\ cpu.cycle = after_reset.steps + 1
        /\ after_reset.steps = 8 =>
              /\ cpu.state = "Running"
              /\ last_action = "Complete"
              /\ cpu.sp = 253
              /\ cpu.pc = ResetVectorWord
              /\ cpu.cycle = 1

\* a reset() called in the third cycle of an instruction of the running
\* program has brought the CPU back to the start of the program
C7_Witness ==
    /\ after_reset.called
    /\ after_reset.steps = 8
    /\ after_reset.state = "Running"
    /\ after_reset.cycle = 3
    /\ calls.resets = 2
    /\ cpu.state = "Running"
    /\ cpu.sp = 253
    /\ cpu.pc = 57344

---------------------------------------------------------------------------
(* C1                                                                      *)

\* C1: a step() call made in the Running state that returns, returns one of
\* the three results and leaves the cycle counter determined by it: one
\* higher after Continue; 1 after Complete; 2 after CompleteAndFetch, with
\* the opcode register holding the byte at the PC the instruction finished
\* with and PC one past it.  A call made at cycle 1 (after Complete) is a
\* fetch: it latches the byte at PC, advances PC and returns Continue
C1_StepResult ==
    [][(cpu.state = "Running" /\ calls'.last = "step" /\ ~panicked') =>
          /\ last_action' \in {"Continue", "Complete", "CompleteAndFetch"}
          /\ last_action' = "Continue" => cpu'.cycle = cpu.cycle + 1
          /\ last_action' = "Complete" => cpu'.cycle = 1
          /\ last_action' = "CompleteAndFetch" =>
                /\ cpu'.cycle = 2
                /\ cpu'.opcode = MemRead(ram', fetched'.cpu.pc)
                /\ cpu'.pc = (fetched'.cpu.pc + 1) % 65536
          /\ cpu.cycle = 1 =>
                /\ last_action' = "Continue"
                /\ cpu'.opcode = MemRead(ram, cpu.pc)
                /\ cpu'.pc = (cpu.pc + 1) % 65536
                /\ ram' = ram
          /\ cpu'.state = "Running"]_vars

\* LDA #$48 has finished with CompleteAndFetch: the STA that follows it is
\* latched, PC is past its opcode and the cycle counter is 2
C1_Witness ==
    /\ cpu.state = "Running"
    /\ last_action = "CompleteAndFetch"
    /\ completed.cpu.pc = 57344
    /\ cpu.opcode = 133
    /\ cpu.pc = 57347
    /\ cpu.cycle = 2

---------------------------------------------------------------------------
(* SpecSeq: programs of up to MaxInstructions instructions, written one    *)
(* after another by with_instruction and run by CpuTest::run from cycle 1. *)

\* LDA #$48, STA $20, INC $20, LDX $20, TAX, ADC #$FF, LDA $12FF,X,
\* STA ($10),Y, PHA, PLA, ASL A, BNE *+2, BEQ *+2, INC $0403
SeqInstructions ==
    { <<169, 72>>, <<133, 32>>, <<230, 32>>, <<166, 32>>, <<170>>, <<105, 255>>,
      <<189, 255, 18>>, <<145, 16>>, <<72>>, <<104>>, <<10>>, <<208, 0>>,
      <<240, 0>>, <<238, 3, 4>> }

\* with_data: an operand at $20, a pointer to $0300 at $10 and a byte at $1300
SeqData == (32 :> 103) @@ (17 :> 3) @@ (4864 :> 129)

SeqFlags == {0, 3}

RECURSIVE Programs_of(_)
\* the byte strings of the programs of n instructions
Programs_of(n) ==
    IF n = 0 THEN {<<>>}
    ELSE {prog \o ins : prog \in Programs_of(n - 1), ins \in SeqInstructions}

InitSeq ==
    \E count \in 1..MaxInstructions, p0 \in SeqFlags, checks \in BOOLEAN :
        \E prog \in Programs_of(count) :
            LET regs == [TestRegs EXCEPT !.x = 1, !.y = 2, !.p = p0]
            IN  HarnessInit(write_block(SeqData, regs.pc, prog), regs, count, checks)

SpecSeq == InitSeq /\ [][NextRun]_vars

---------------------------------------------------------------------------
(* C5                                                                      *)

\* the registers, other than PC, and the memory are those of the instructions
\* executed one after another, and the step() calls number the historical
\* cycles of the instructions plus one when the last result is CompleteAndFetch
SameResultsAndTime ==
    /\ ~reference.panic
    /\ cpu.ac = reference.ac
    /\ cpu.x = reference.x
    /\ cpu.y = reference.y
    /\ cpu.sp = reference.sp
    /\ cpu.p = reference.p
    /\ ram = reference.ram
    /\ calls.steps = completed.total + FetchAhead
    /\ FetchAhead = 1 <=> last_action = "CompleteAndFetch"

\* run(2) of LDA #$48; STA $20 written at the start address has returned
LdaStaExample ==
    /\ Finished
    /\ MemRead(completed.ram, TestRegs.pc) = 169
    /\ MemRead(completed.ram, TestRegs.pc + 1) = 72
    /\ StartPc = TestRegs.pc + 2
    /\ StartOpcode = 133
    /\ Operand1 = 32
    /\ completed.total = 5

LdaStaResult ==
    LdaStaExample =>
        /\ calls.steps = 5
        /\ MemRead(ram, 32) = 72
        /\ cpu.ac = 72
        /\ cpu.pc = TestRegs.pc + 4

\* C5 as the text states it: after the last instruction of a sequence started
\* at cycle 1 all the registers, PC among them, and the memory equal those
\* of the instructions executed one after another, and the step() calls
\* number the historical cycles plus one when the last result is
\* CompleteAndFetch; LDA #$48; STA $20 takes 5 calls and leaves
\* memory[$0020] = $48, AC = $48 and PC = start + 4
C5_PipelinedFetchAllRegisters ==
    /\ Finished => (SameResultsAndTime /\ cpu.pc = reference.pc)
    /\ LdaStaResult

\* C5 amended: after the last instruction of a sequence started at cycle 1,
\* AC, X, Y, SP, P and the memory equal those of the instructions executed
\* one after another, and the step() calls number the historical cycles plus
\* one when the last result is CompleteAndFetch.  PC equals the sequential PC
\* when the last result is Complete; when it is CompleteAndFetch the next
\* opcode is latched, PC is one past the sequential PC and the cycle counter
\* is 2.  LDA #$48; STA $20 takes 5 calls and leaves memory[$0020] = $48,
\* AC = $48 and PC = start + 4
C5_PipelinedFetch ==
    /\ Finished =>
          /\ SameResultsAndTime
          /\ cputest.cycles = completed.total
          /\ last_action = "Complete" =>
                (cpu.pc = reference.pc /\ cpu.cycle = 1)
          /\ last_action = "CompleteAndFetch" =>
                /\ cpu.pc = (reference.pc + 1) % 65536
                /\ cpu.opcode = MemRead(ram, reference.pc)
                /\ cpu.cycle = 2
    /\ LdaStaResult

\* run(2) of LDA #$48; LDX $20 has returned: the LDX was latched by the last
\* step of the LDA, and the last step of the LDX has latched the byte after it
C5_Witness ==
    /\ Finished
    /\ MemRead(completed.ram, TestRegs.pc) = 169
    /\ StartPc = TestRegs.pc + 2
    /\ StartOpcode = 166
    /\ last_action = "CompleteAndFetch"
    /\ completed.total = 5
    /\ calls.steps = 6
    /\ cpu.ac = 72
    /\ cpu.x = 103
    /\ reference.pc = TestRegs.pc + 4
    /\ cpu.pc = TestRegs.pc + 5

\* the example of the text is reached
C5_ExampleWitness == LdaStaExample /\ calls.steps = 5 /\ MemRead(ram, 32) = 72

---------------------------------------------------------------------------
(* SpecCall: a JSR and, at its operand, an RTS, run by CpuTest::run(2).    *)

CallSites == {1024, 1277, 65532, 65533}
CallTargets == {8192, 12543}
CallStacks == {255, 128, 2, 1, 0}

InitCall ==
    \E a \in CallSites, target \in CallTargets, sp0 \in CallStacks, checks \in BOOLEAN :
        LET regs == [TestRegs EXCEPT !.pc = a, !.sp = sp0]
            jsr == <<32, lo_byte(target), hi_byte(target)>>
            image == [c \in {(a + i) % 65536 : i \in 0..2} \cup {target} |->
                         IF c = target THEN 96 ELSE jsr[((c - a + 65536) % 65536) + 1]]
        IN  HarnessInit(image, regs, 2, checks)

SpecCall == InitCall /\ [][NextRun]_vars

---------------------------------------------------------------------------
(* C11                                                                     *)

\* the last step() call ended the instruction recorded in `completed`
JustCompleted ==
    /\ ~panicked
    /\ last_action \in {"Complete", "CompleteAndFetch"}
    /\ completed.action = last_action

\* the address following the JSR that started at a
AfterJsr(a) == (a + 3) % 65536

JsrResult ==
    (JustCompleted /\ StartOpcode = 32) =>
        LET a == completed.cpu.pc
            sp0 == completed.cpu.sp
            ret == (a + 2) % 65536
        IN  /\ completed.steps = 6
            /\ last_action = "Complete"
            /\ cpu.sp = sp0 - 2
            /\ MemRead(ram, STACK_BASE + sp0) = hi_byte(ret)
            /\ MemRead(ram, STACK_BASE + sp0 - 1) = lo_byte(ret)
            /\ \A c \in (DOMAIN ram \cup DOMAIN completed.ram)
                        \ {STACK_BASE + sp0, STACK_BASE + sp0 - 1} :
                   MemRead(ram, c) = MemRead(completed.ram, c)
            /\ cpu.pc = WordOf(Operand1, Operand2)

RtsResult ==
    (JustCompleted /\ StartOpcode = 96) =>
        LET sp0 == completed.cpu.sp
        IN  /\ completed.steps = 6
            /\ last_action = "Complete"
            /\ cpu.sp = sp0 + 2
            /\ cpu.pc = (WordOf(MemRead(completed.ram, STACK_BASE + sp0 + 1),
                                MemRead(completed.ram, STACK_BASE + sp0 + 2)) + 1) % 65536
            /\ ram = completed.ram

\* the RTS that finished last was reached by a JSR, the instruction before it
RtsAfterJsr ==
    /\ JustCompleted
    /\ StartOpcode = 96
    /\ completed.total = 12
    /\ MemRead(completed.ram, completed.prev.pc) = 32

\* C11: a JSR at address a takes 6 cycles, pushes the high and then the low
\* byte of a+2, lowers SP by 2 and jumps to its operand; an RTS takes 6
\* cycles, pulls the two bytes and sets PC to the pulled word plus one; an
\* RTS run on the stack the JSR left restores SP to its value before the
\* JSR and sets PC to a+3
C11_JsrRts ==
    /\ JsrResult
    /\ RtsResult
    /\ RtsAfterJsr =>
          /\ cpu.sp = completed.prev.sp
          /\ cpu.pc = AfterJsr(completed.prev.pc)

\* JSR $2000 at $04FD with SP = $80 and the RTS at $2000 have run: the
\* return address $04FF was pushed and PC is on the next page, at $0500
C11_Witness ==
    /\ Finished
    /\ RtsAfterJsr
    /\ completed.prev.pc = 1277
    /\ completed.prev.sp = 128
    /\ MemRead(ram, STACK_BASE + 128) = 4
    /\ MemRead(ram, STACK_BASE + 127) = 255
    /\ cpu.sp = 128
    /\ cpu.pc = 1280

---------------------------------------------------------------------------
(* C12                                                                     *)

\* BRK, PHP, JSR, PHA and PLP, RTI, RTS, PLA
PushOpcodes == {0, 8, 32, 72}
PullOpcodes == {40, 64, 96, 104}

\* a step() call of a running instruction that returns
InstructionStep ==
    /\ cpu.state = "Running"
    /\ cpu.cycle > 1
    /\ calls'.last = "step"
    /\ calls'.steps = calls.steps + 1
    /\ ~panicked'

\* the step pushes: an instruction that pushes moves SP
PushStep == InstructionStep /\ cpu.opcode \in PushOpcodes /\ cpu'.sp # cpu.sp

\* the byte the instruction pushes in this cycle
PushedByte ==
    LET status == FlagOn(FlagOn(cpu.p, SR_BREAK), SR_UNUSED)
    IN  CASE cpu.opcode = 72 -> cpu.ac
          [] cpu.opcode = 8 -> status
          [] cpu.opcode = 32 -> IF cpu.cycle = 4 THEN hi_byte(cpu.pc) ELSE lo_byte(cpu.pc)
          [] cpu.opcode = 0 ->
                IF cpu.cycle = 3 THEN hi_byte(cpu.pc)
                ELSE IF cpu.cycle = 4 THEN lo_byte(cpu.pc) ELSE status

\* the step moves SP up: an instruction that pulls does it before each read
PullStep == InstructionStep /\ cpu.opcode \in PullOpcodes /\ cpu'.sp # cpu.sp

\* the step reads a byte from the stack: cycle 4 of PLA, PLP; 4, 5 of RTS;
\* 4, 5, 6 of RTI
PullRead ==
    /\ InstructionStep
    /\ cpu.opcode \in PullOpcodes
    /\ cpu.cycle >= 4
    /\ cpu.cycle <= (CASE cpu.opcode = 64 -> 6 [] cpu.opcode = 96 -> 5 [] OTHER -> 4)

\* the register the byte read in this cycle went to holds the byte b
PulledIs(b) ==
    LET status == FlagOff(FlagOff(b, SR_BREAK), SR_UNUSED)
    IN  CASE cpu.opcode = 104 -> cpu'.ac = b
          [] cpu.opcode = 40 -> cpu'.p = status
          [] cpu.opcode = 96 ->
                IF cpu.cycle = 4 THEN lo_byte(cpu'.pc) = b ELSE hi_byte(cpu'.pc) = b
          [] cpu.opcode = 64 ->
                IF cpu.cycle = 4 THEN cpu'.p = status
                ELSE IF cpu.cycle = 5 THEN lo_byte(cpu'.pc) = b ELSE hi_byte(cpu'.pc) = b

PullPreIncrements ==
    /\ PullStep => (cpu'.sp = cpu.sp + 1 /\ ram' = ram)
    /\ PullRead =>
          /\ cpu.sp = fetched.cpu.sp + (cpu.cycle - 3)
          /\ PulledIs(MemRead(ram, STACK_BASE + cpu.sp))

\* C12 as the text states it: a push decrements SP first and stores the byte
\* at $0100 + the decremented SP; a pull increments SP first and reads the
\* byte at $0100 + the incremented SP
C12_PushPreDecrement ==
    [][/\ PushStep =>
            /\ cpu'.sp = cpu.sp - 1
            /\ ram' = MemWrite(ram, STACK_BASE + cpu'.sp, PushedByte)
       /\ PullPreIncrements]_vars

\* C12 amended: a push stores the byte at $0100 + SP and then decrements SP
\* (post-decrement); a pull increments SP first and reads the byte at
\* $0100 + the incremented SP
C12_PushPostDecrement ==
    [][/\ PushStep =>
            /\ cpu'.sp = cpu.sp - 1
            /\ ram' = MemWrite(ram, STACK_BASE + cpu.sp, PushedByte)
       /\ PullPreIncrements]_vars

\* PHA with AC = $48 and SP = $80 has run: the byte is at $0180, SP is $7F
C12_Witness ==
    /\ JustCompleted
    /\ StartOpcode = 72
    /\ completed.cpu.sp = 128
    /\ completed.cpu.ac = 72
    /\ MemRead(ram, STACK_BASE + 128) = 72
    /\ MemRead(ram, STACK_BASE + 127) # 72
    /\ cpu.sp = 127

\* PLA with SP = $80 has run: AC holds the byte of $0181, SP is $81
C12_PullWitness ==
    /\ JustCompleted
    /\ StartOpcode = 104
    /\ completed.cpu.sp = 128
    /\ cpu.sp = 129
    /\ cpu.ac = MemRead(ram, STACK_BASE + 129)
    /\ cpu.ac # MemRead(ram, STACK_BASE + 128)

---------------------------------------------------------------------------
(* SpecStack: the instructions that push or pull, run as one instruction   *)
(* by CpuTest::run_one with the stack pointer near both ends of the stack. *)

StackPointers == {0, 1, 2, 3, 128, 252, 253, 254, 255}

InitStack ==
    \E opcode \in PushOpcodes \cup PullOpcodes, sp0 \in StackPointers, checks \in BOOLEAN :
        LET regs == [TestRegs EXCEPT !.ac = 72, !.p = 195, !.sp = sp0]
        IN  HarnessInit(Sparse(OneInstruction(opcode, 16, 18, regs)), regs, 1, checks)

SpecStack == InitStack /\ [][NextRun]_vars

---------------------------------------------------------------------------
(* C13                                                                     *)

\* a step() call made while an instruction is running
StepTaken ==
    /\ cpu.state = "Running"
    /\ cpu.cycle > 1
    /\ ~panicked
    /\ calls'.last = "step"
    /\ calls'.steps = calls.steps + 1

\* the cycle calls push_byte: 3 of PHA, PHP; 4, 5 of JSR; 3, 4, 5 of BRK
PushAttempt ==
    /\ StepTaken
    /\ \/ cpu.opcode \in {8, 72} /\ cpu.cycle = 3
       \/ cpu.opcode = 32 /\ cpu.cycle \in {4, 5}
       \/ cpu.opcode = 0 /\ cpu.cycle \in {3, 4, 5}

\* the cycle calls incr_stack: 3 of PLA, PLP; 3, 4 of RTS; 3, 4, 5 of RTI
PullAttempt ==
    /\ StepTaken
    /\ \/ cpu.opcode \in {40, 104} /\ cpu.cycle = 3
       \/ cpu.opcode = 96 /\ cpu.cycle \in {3, 4}
       \/ cpu.opcode = 64 /\ cpu.cycle \in {3, 4, 5}

\* C13: a push attempted by PHA, PHP, JSR or BRK while SP = $00 aborts
\* without writing memory or changing SP; a pull attempted by PLA, PLP, RTS
\* or RTI while SP = $FF aborts without changing SP; so no step of these
\* instructions takes SP from $00 to $FF or from $FF to $00
C13_StackNeverWraps ==
    [][/\ (PushAttempt /\ cpu.sp = 0) =>
             (panicked' /\ ram' = ram /\ cpu'.sp = 0)
       /\ (PullAttempt /\ cpu.sp = 255) =>
             (panicked' /\ ram' = ram /\ cpu'.sp = 255)
       /\ (PushAttempt /\ cpu.sp > 0) => (~panicked' /\ cpu'.sp = cpu.sp - 1)
       /\ (PullAttempt /\ cpu.sp < 255) => (~panicked' /\ cpu'.sp = cpu.sp + 1)
       /\ (StepTaken /\ cpu.opcode \in PushOpcodes \cup PullOpcodes) =>
             /\ ~(cpu.sp = 0 /\ cpu'.sp = 255)
             /\ ~(cpu.sp = 255 /\ cpu'.sp = 0)
             /\ (~PushAttempt /\ ~PullAttempt) => cpu'.sp = cpu.sp]_vars

\* the second push of a JSR run with SP = $01 has aborted: the first byte
\* is on the stack at $0101, SP is $00 and $0100 was not written
C13_Witness ==
    /\ panicked
    /\ cpu.opcode = 32
    /\ cpu.cycle = 5
    /\ fetched.cpu.sp = 1
    /\ cpu.sp = 0
    /\ MemRead(ram, STACK_BASE + 1) = hi_byte(cpu.pc)
    /\ MemRead(ram, STACK_BASE) = MemRead(fetched.ram, STACK_BASE)

\* the pull of a PLA run with SP = $FF has aborted
C13_PullWitness ==
    /\ panicked
    /\ cpu.opcode = 104
    /\ cpu.cycle = 3
    /\ cpu.sp = 255
    /\ ram = fetched.ram

---------------------------------------------------------------------------
(* SpecAdc, SpecSbc: ADC #imm and SBC #imm in binary mode, run as one      *)
(* instruction by CpuTest::run_one for every AC, operand and carry-in.     *)

\* with_instruction(&[opcode, val]) with AC and P set by with_state
ArithInit(opcode, a, val, p0, checks) ==
    LET regs == [TestRegs EXCEPT !.ac = a, !.p = p0]
    IN  HarnessInit(write_block(EmptyRam, regs.pc, <<opcode, val>>), regs, 1, checks)

\* carry clear and set, with Negative, Overflow and Zero clear
BinaryFlags == {0, 1}

\* The sweeps are built with overflow checks: a build without them computes
\* the same values wherever the checked build does not panic, and the claims
\* checked here require that it never does.

InitAdc ==
    \E a \in Byte, val \in Byte, p0 \in BinaryFlags :
        ArithInit(105, a, val, p0, TRUE)

SpecAdc == InitAdc /\ [][NextRun]_vars

InitSbc ==
    \E a \in Byte, val \in Byte, p0 \in BinaryFlags :
        ArithInit(233, a, val, p0, TRUE)

SpecSbc == InitSbc /\ [][NextRun]_vars

---------------------------------------------------------------------------
(* C14, C15                                                                *)

\* what the instruction that finished last started with
StartAc == completed.cpu.ac
StartP == completed.cpu.p
CarryIn == IF HasFlag(StartP, SR_CARRY) THEN 1 ELSE 0

\* the flags other than Negative, Overflow, Zero and Carry
OtherFlags(p) == FlagOff(FlagOff(FlagOff(FlagOff(p, SR_NEGATIVE), SR_OVERFLOW), SR_ZERO),
                         SR_CARRY)

\* AC holds result, Carry is carry, Overflow is overflow, Negative and Zero
\* are set from result, the other flags are those the instruction started with
ArithmeticResult(result, carry, overflow) ==
    /\ cpu.ac = result
    /\ HasFlag(cpu.p, SR_CARRY) = carry
    /\ HasFlag(cpu.p, SR_OVERFLOW) = overflow
    /\ HasFlag(cpu.p, SR_NEGATIVE) = (result >= 128)
    /\ HasFlag(cpu.p, SR_ZERO) = (result = 0)
    /\ OtherFlags(cpu.p) = OtherFlags(StartP)

\* (a XOR result) AND (b XOR result) AND $80 is not 0
SignsDiffer(a, b, result) ==
    BitAnd(BitAnd(BitXor(a, result), BitXor(b, result)), 128) # 0

\* C14: with the BCD flag clear, ADC #imm leaves AC = (ac + value + carry_in)
\* mod 256, Carry = (ac + value + carry_in >= 256), Overflow = (((ac XOR
\* result) AND (value XOR result) AND $80) != 0), and Negative and Zero set
\* from the result, for every AC, operand and carry-in
C14_AdcBinary ==
    /\ (Finished /\ StartOpcode = 105 /\ ~HasFlag(StartP, SR_BCD)) =>
          LET sum == StartAc + Operand1 + CarryIn
              result == sum % 256
          IN  ArithmeticResult(result, sum >= 256, SignsDiffer(StartAc, Operand1, result))
    /\ (cpu.opcode = 105 /\ ~HasFlag(cpu.p, SR_BCD)) => ~panicked

\* ADC #$0F with AC = $F0 and the carry set: AC = $00, Carry and Zero set
C14_Witness ==
    /\ Finished
    /\ StartOpcode = 105
    /\ StartAc = 240
    /\ Operand1 = 15
    /\ StartP = SR_CARRY
    /\ cpu.ac = 0
    /\ cpu.p = SR_CARRY + SR_ZERO

\* C15: with the BCD flag clear, SBC #imm leaves AC = (ac - value -
\* (1 - carry_in)) mod 256, Carry = 1 exactly when ac - value - (1 - carry_in)
\* >= 0, Overflow = (((ac XOR result) AND ((255 - value) XOR result) AND $80)
\* != 0), and Negative and Zero set from the result, for every AC, operand
\* and carry-in
C15_SbcBinary ==
    /\ (Finished /\ StartOpcode = 233 /\ ~HasFlag(StartP, SR_BCD)) =>
          LET diff == StartAc - Operand1 - (1 - CarryIn)
              result == (diff + 256) % 256
          IN  ArithmeticResult(result, diff >= 0,
                               SignsDiffer(StartAc, 255 - Operand1, result))
    /\ (cpu.opcode = 233 /\ ~HasFlag(cpu.p, SR_BCD)) => ~panicked

\* SBC #$40 with AC = $40 and the carry clear: AC = $FF, Carry clear (borrow)
C15_Witness ==
    /\ Finished
    /\ StartOpcode = 233
    /\ StartAc = 64
    /\ Operand1 = 64
    /\ StartP = 0
    /\ cpu.ac = 255
    /\ cpu.p = SR_NEGATIVE

---------------------------------------------------------------------------
(* SpecBcd: ADC #imm and SBC #imm in decimal mode, run as one instruction  *)
(* for every pair of valid two-digit BCD bytes and every carry-in.         *)

\* both digits of the byte are decimal
BcdValid(b) == (b % 16 <= 9) /\ (b \div 16 <= 9)
BcdBytes == {b \in Byte : BcdValid(b)}

\* the number a BCD byte encodes, and the BCD byte of a number below 100
BcdValue(b) == (b \div 16) * 10 + (b % 16)
BcdEncode(n) == (n \div 10) * 16 + (n % 10)

\* the BCD flag with the carry clear and set, alone and with Negative,
\* Overflow and Zero set
BcdFlags == {8, 9, 202, 203}

InitBcd ==
    \E opcode \in {105, 233}, a \in BcdBytes, val \in BcdBytes, p0 \in BcdFlags :
        ArithInit(opcode, a, val, p0, TRUE)

SpecBcd == InitBcd /\ [][NextRun]_vars

---------------------------------------------------------------------------
(* C16                                                                     *)

\* AC holds result, Carry is carry and every other flag is unchanged
DecimalResult(result, carry) ==
    /\ cpu.ac = result
    /\ HasFlag(cpu.p, SR_CARRY) = carry
    /\ FlagOff(cpu.p, SR_CARRY) = FlagOff(StartP, SR_CARRY)

\* the instruction that finished last was this opcode with #imm, in decimal
\* mode, on valid BCD bytes
DecimalDone(opcode) ==
    /\ Finished
    /\ StartOpcode = opcode
    /\ HasFlag(StartP, SR_BCD)
    /\ BcdValid(StartAc)
    /\ BcdValid(Operand1)

\* the instruction in hand is ADC #imm or SBC #imm in decimal mode on valid
\* BCD bytes
DecimalInHand ==
    /\ MemRead(fetched.ram, fetched.cpu.pc) \in {105, 233}
    /\ HasFlag(fetched.cpu.p, SR_BCD)
    /\ BcdValid(fetched.cpu.ac)
    /\ BcdValid(MemRead(fetched.ram, (fetched.cpu.pc + 1) % 65536))

\* C16: with the BCD flag set and AC and the operand valid two-digit BCD
\* bytes, for every carry-in, ADC leaves AC = the BCD encoding of (ac + value
\* + carry_in) mod 100 with Carry = (sum >= 100); SBC leaves AC = the BCD
\* encoding of (ac - value - (1 - carry_in)) mod 100 with Carry = 1 exactly
\* when there is no borrow; both leave Negative, Overflow and Zero unchanged
\* and never abort
C16_Decimal ==
    /\ DecimalDone(105) =>
          LET sum == BcdValue(StartAc) + BcdValue(Operand1) + CarryIn
          IN  DecimalResult(BcdEncode(sum % 100), sum >= 100)
    /\ DecimalDone(233) =>
          LET diff == BcdValue(StartAc) - BcdValue(Operand1) - (1 - CarryIn)
          IN  DecimalResult(BcdEncode((diff + 100) % 100), diff >= 0)
    /\ DecimalInHand => ~panicked

\* ADC #$46 with AC = $58 and the carry set, in decimal mode: 58 + 46 + 1 =
\* 105, so AC = $05 and the carry is set
C16_Witness ==
    /\ Finished
    /\ StartOpcode = 105
    /\ StartAc = 88
    /\ Operand1 = 70
    /\ StartP = SR_BCD + SR_CARRY
    /\ cpu.ac = 5
    /\ cpu.p = SR_BCD + SR_CARRY

\* SBC #$13 with AC = $12 and the carry set, in decimal mode: 12 - 13 = -1,
\* so AC = $99 and the carry is clear
C16_SbcWitness ==
    /\ Finished
    /\ StartOpcode = 233
    /\ StartAc = 18
    /\ Operand1 = 19
    /\ StartP = SR_BCD + SR_CARRY
    /\ cpu.ac = 153
    /\ cpu.p = SR_BCD

---------------------------------------------------------------------------
(* SpecPins: three pins, the threads that own them calling connect_to,      *)
(* update and wait in any order and dropping them at any moment.           *)

PinIds == {1, 2, 3}
\* with ports the type of a pin fixes its side: OutputPort or InputPort
\* (port 4 is the second input of SpecSelect)
OutputPorts == {1, 2}
InputPorts == {3, 4}
PinValues == {1, 2}

\* the CPU variables of a system that has only pins
NoCpu ==
    /\ cpu = NewCpu
    /\ ram = EmptyRam
    /\ overflow_checks = FALSE
    /\ panicked = FALSE
    /\ calls = NoCalls
    /\ last_action = "None"
    /\ cputest = [cycles |-> 0, left |-> 0, done |-> FALSE]
    /\ fetched = Snapshot(NewCpu, EmptyRam, 0)
    /\ completed = NoInstruction(NewCpu, EmptyRam)
    /\ reference = Working(NewCpu, EmptyRam)
    /\ after_reset = NoReset(NewCpu, EmptyRam)

\* the pins as created: all with the default value 0, or each with_initial_value
InitPins ==
    /\ NoCpu
    /\ NoBanks
    /\ NoThreads
    /\ pin_impl \in {"Pin", "Port"}
    /\ \E own \in BOOLEAN : pins = [p \in PinIds |-> NewPin(IF own THEN 4 + p ELSE 0)]
    /\ channels = <<>>
    /\ pin_call = NoPinCall
    /\ pin_history = NoPinHistory(PinIds)

\* the pin is there to be called, and no thread has panicked
Callable(p) == pins[p].kind # "Dropped" /\ pin_call.outcome # "panicked"

\* the effect of a call that ended as r
PinEffect(r, op, p, target, arg) ==
    /\ pins' = r.pins
    /\ channels' = r.channels
    /\ pin_call' = [op |-> op, pin |-> p, target |-> target, arg |-> arg,
                    outcome |-> r.outcome, ret |-> r.ret]
    /\ UNCHANGED <<pin_impl, cpuvars, memvars, runvars>>

\* source.connect_to(&mut target)
Connect(source, target) ==
    /\ source # target
    /\ Callable(source)
    /\ Callable(target)
    /\ pin_impl = "Port" => (source \in OutputPorts /\ target \in InputPorts)
    /\ pin_history.connects < MaxConnects
    /\ LET r == IF pin_impl = "Pin"
                THEN Pin_connect_to(pins, channels, source, target)
                ELSE OutputPort_connect_to(pins, channels, source, target)
       IN  /\ PinEffect(r, "connect_to", source, target, 0)
           /\ pin_history' =
                [pin_history EXCEPT
                    !.connects = @ + 1,
                    !.log = IF r.outcome = "returned"
                            THEN [@ EXCEPT ![source] = [updates |-> <<>>, waits |-> <<>>],
                                           ![target] = [updates |-> <<>>, waits |-> <<>>]]
                            ELSE @]

\* p.update(new_value)
Update(p, new_value) ==
    /\ Callable(p)
    /\ pin_impl = "Port" => p \in OutputPorts
    /\ pin_history.updates < MaxUpdates
    /\ LET r == IF pin_impl = "Pin"
                THEN Pin_update(pins, channels, p, new_value)
                ELSE OutputPort_update(pins, channels, p, new_value)
       IN  /\ PinEffect(r, "update", p, 0, new_value)
           /\ pin_history' =
                [pin_history EXCEPT
                    !.updates = @ + 1,
                    !.log[p].updates = IF pins[p].kind = "Output"
                                       THEN Append(@, new_value) ELSE @]

\* p.wait(): the call returns or panics once recv() does not block
Wait(p) ==
    /\ Callable(p)
    /\ pin_impl = "Port" => p \in InputPorts
    /\ pins[p].kind = "Input" => ~RecvBlocks(channels, pins[p].chan)
    /\ pin_history.waits < MaxWaits
    /\ LET r == IF pin_impl = "Pin"
                THEN Pin_wait(pins, channels, p)
                ELSE InputPort_wait(pins, channels, p)
       IN  /\ PinEffect(r, "wait", p, 0, 0)
           /\ pin_history' =
                [pin_history EXCEPT
                    !.waits = @ + 1,
                    !.log[p].waits = IF r.outcome = "returned" THEN Append(@, r.ret) ELSE @]

\* the pin goes out of scope, and with it the Sender or Receiver it holds
DropPin(p) ==
    /\ Callable(p)
    /\ pins' = [pins EXCEPT ![p].kind = "Dropped"]
    /\ channels' = DropEnd(channels, pins[p])
    /\ pin_call' = [op |-> "drop", pin |-> p, target |-> 0, arg |-> 0,
                    outcome |-> "returned", ret |-> -1]
    /\ UNCHANGED <<pin_impl, pin_history, cpuvars, memvars, runvars>>

NextPins ==
    \/ \E source \in PinIds, target \in PinIds : Connect(source, target)
    \/ \E p \in PinIds, v \in PinValues : Update(p, v)
    \/ \E p \in PinIds : Wait(p)
    \/ \E p \in PinIds : DropPin(p)

SpecPins == InitPins /\ [][NextPins]_vars

---------------------------------------------------------------------------
(* C17                                                                     *)

IsPrefix(a, b) == Len(a) <= Len(b) /\ SubSeq(b, 1, Len(a)) = a

\* source is the producer and target the consumer of one channel, both alive
ConnectedPair(source, target) ==
    /\ pins[source].kind = "Output"
    /\ pins[target].kind = "Input"
    /\ pins[source].chan = pins[target].chan
    /\ channels[pins[source].chan].tx
    /\ channels[pins[source].chan].rx

\* C17: for a connected producer/consumer pair, under every interleaving of
\* the calls, the values the consumer's wait() calls have returned are a
\* prefix of the values the producer passed to update(), in the same order;
\* the values not yet returned are exactly those still queued, so none is
\* lost, duplicated or reordered, and no value is returned before it is sent
C17_FifoOrder ==
    \A source \in PinIds, target \in PinIds :
        ConnectedPair(source, target) =>
            /\ IsPrefix(pin_history.log[target].waits, pin_history.log[source].updates)
            /\ pin_history.log[source].updates =
                  pin_history.log[target].waits \o channels[pins[source].chan].queue

\* the producer has sent 2 and then 1, the consumer has received 2 and the
\* 1 is still queued
C17_Witness ==
    /\ ConnectedPair(1, 3)
    /\ pin_history.log[1].updates = <<2, 1>>
    /\ pin_history.log[3].waits = <<2>>
    /\ channels[pins[3].chan].queue = <<1>>
    /\ pins[3].value = 2
    /\ pins[1].value = 1

---------------------------------------------------------------------------
(* C18                                                                     *)

\* the step is an update() call on the producer p, whose consumer has been
\* dropped
OrphanUpdate(p) ==
    /\ pins[p].kind = "Output"
    /\ ~channels[pins[p].chan].rx
    /\ pin_history'.updates = pin_history.updates + 1
    /\ pin_call'.op = "update"
    /\ pin_call'.pin = p

\* the call latched its argument and sent nothing
LatchedOnly(p) ==
    /\ value(pins', p) = pin_call'.arg
    /\ channels' = channels

\* C18 as the text states it: update(v) on a producer whose consumer has
\* been dropped does not abort in either implementation, and the producer's
\* latched value becomes v
C18_UpdateAfterConsumerDropped ==
    [][\A p \in PinIds :
          OrphanUpdate(p) => (pin_call'.outcome = "returned" /\ LatchedOnly(p))]_vars

\* what holds of both implementations: update(v) on a producer whose
\* consumer has been dropped latches v and queues nothing; an OutputPort
\* returns, a Pin panics
C18_UpdateAfterConsumerDroppedByImpl ==
    [][\A p \in PinIds :
          OrphanUpdate(p) =>
              /\ LatchedOnly(p)
              /\ pin_impl = "Port" => pin_call'.outcome = "returned"
              /\ pin_impl = "Pin" => pin_call'.outcome = "panicked"]_vars

\* Pin: the consumer of pin 1 was dropped and update(2) on pin 1 has panicked
C18_PanicWitness ==
    /\ pin_impl = "Pin"
    /\ pin_call.op = "update"
    /\ pin_call.pin = 1
    /\ pin_call.arg = 2
    /\ pin_call.outcome = "panicked"
    /\ pins[1].kind = "Output"
    /\ pins[1].value = 2
    /\ pins[3].kind = "Dropped"

\* Port: the consumer of port 1 was dropped and update(2) on port 1 returned
C18_PortWitness ==
    /\ pin_impl = "Port"
    /\ pin_call.op = "update"
    /\ pin_call.pin = 1
    /\ pin_call.arg = 2
    /\ pin_call.outcome = "returned"
    /\ pins[1].kind = "Output"
    /\ ~channels[pins[1].chan].rx
    /\ pins[1].value = 2
    /\ pins[3].kind = "Dropped"

---------------------------------------------------------------------------
(* C19                                                                     *)

\* p is a consumer whose producer has been dropped
Orphaned(p) == pins[p].kind = "Input" /\ ~channels[pins[p].chan].tx

\* the step is a wait() call on p
WaitCall(p) ==
    /\ pin_history'.waits = pin_history.waits + 1
    /\ pin_call'.op = "wait"
    /\ pin_call'.pin = p

\* the producer that held the other end of the consumer's channel
DroppedProducerOf(p) ==
    {s \in PinIds \ {p} : pins[s].kind = "Dropped" /\ pins[s].chan = pins[p].chan}

\* w is u followed by repetitions of v
ThenRepeats(w, u, v) ==
    IF Len(w) <= Len(u) THEN IsPrefix(w, u)
    ELSE /\ SubSeq(w, 1, Len(u)) = u
         /\ \A i \in (Len(u) + 1)..Len(w) : w[i] = v

\* the values a consumer has received after its producer was dropped: the
\* values sent, in order, and then the last value latched, again and again
OrphanedHistory ==
    \A p \in PinIds : \A s \in DroppedProducerOf(p) :
        Orphaned(p) =>
            LET u == pin_history.log[s].updates
                w == pin_history.log[p].waits
            IN  /\ ThenRepeats(w, u, pins[p].value)
                /\ Len(w) >= Len(u) => channels[pins[p].chan].queue = <<>>
                /\ (Len(w) >= Len(u) /\ u # <<>>) => pins[p].value = u[Len(u)]

\* a wait() on an orphaned consumer returns the oldest queued value and
\* latches it, or with nothing queued returns the latched value and changes
\* nothing
OrphanedWait(p) ==
    LET q == channels[pins[p].chan].queue
    IN  /\ pin_call'.outcome = "returned"
        /\ q # <<>> =>
              /\ pin_call'.ret = Head(q)
              /\ value(pins', p) = Head(q)
              /\ channels'[pins[p].chan].queue = Tail(q)
        /\ q = <<>> =>
              /\ pin_call'.ret = value(pins, p)
              /\ pins' = pins
              /\ channels' = channels

\* C19: after the producer has been dropped the consumer's wait() never
\* blocks; the values sent before the drop are returned one per call in send
\* order, and every later wait() returns the last latched value and leaves
\* it unchanged
C19_WaitAfterProducerDropped ==
    /\ [](\A p \in PinIds : Orphaned(p) => ~RecvBlocks(channels, pins[p].chan))
    /\ []OrphanedHistory
    /\ [][\A p \in PinIds : (Orphaned(p) /\ WaitCall(p)) => OrphanedWait(p)]_vars

\* the producer sent 1 and 2 and was dropped; the consumer's three wait()
\* calls returned 1, 2 and 2
C19_Witness ==
    /\ Orphaned(3)
    /\ pins[1].kind = "Dropped"
    /\ pins[1].chan = pins[3].chan
    /\ pin_history.log[1].updates = <<1, 2>>
    /\ pin_history.log[3].waits = <<1, 2, 2>>
    /\ pins[3].value = 2

---------------------------------------------------------------------------
(* C20                                                                     *)

\* the step is the call source.connect_to(&mut target)
ConnectCall(source, target) ==
    /\ pin_history'.connects = pin_history.connects + 1
    /\ pin_call'.op = "connect_to"
    /\ pin_call'.pin = source
    /\ pin_call'.target = target

\* the call made source the producer and target the consumer of a new channel
Bound(source, target) ==
    /\ pins'[source].kind = "Output"
    /\ pins'[target].kind = "Input"
    /\ pins'[source].chan = Len(channels) + 1
    /\ pins'[target].chan = Len(channels) + 1
    /\ Len(channels') = Len(channels) + 1
    /\ channels'[Len(channels')] = NewChannel

\* no channel has two producers or two consumers
OneEndEach ==
    \A p \in PinIds, q \in PinIds :
        (p # q /\ pins[p].kind = pins[q].kind /\ pins[p].kind \in {"Output", "Input"})
            => pins[p].chan # pins[q].chan

\* C20 as the text states it: connect_to aborts unless both the source and
\* the target are Unconnected; a successful connect_to makes the source the
\* producer and the target the consumer in the same operation; no producer
\* is bound to more than one consumer nor a consumer to more than one producer
C20_ConnectRequiresBothUnconnected ==
    /\ []OneEndEach
    /\ [][\A source \in PinIds, target \in PinIds :
            ConnectCall(source, target) =>
                /\ pin_call'.outcome = "returned" <=>
                      (pins[source].kind = "None" /\ pins[target].kind = "None")
                /\ pin_call'.outcome = "returned" => Bound(source, target)
                /\ pin_call'.outcome = "panicked" =>
                      (pins' = pins /\ channels' = channels)]_vars

\* what the code does: connect_to aborts exactly when the source is already
\* connected, whatever the target is; a successful connect_to makes the
\* source the producer and the target the consumer of a new channel, and a
\* sender or receiver the target held is dropped; no channel ever has two
\* producers or two consumers
C20_ConnectRequiresSourceUnconnected ==
    /\ []OneEndEach
    /\ [][\A source \in PinIds, target \in PinIds :
            ConnectCall(source, target) =>
                /\ pin_call'.outcome = "returned" <=> pins[source].kind = "None"
                /\ pin_call'.outcome = "returned" =>
                      /\ Bound(source, target)
                      /\ SubSeq(channels', 1, Len(channels)) = DropEnd(channels, pins[target])
                /\ pin_call'.outcome = "panicked" =>
                      (pins' = pins /\ channels' = channels)]_vars

\* pin 3, the consumer of pin 1, has been rebound: 2.connect_to(3) returned,
\* pin 3 is the consumer of pin 2 and the channel of pin 1 has no receiver
C20_ReboundWitness ==
    /\ pin_call.op = "connect_to"
    /\ pin_call.pin = 2
    /\ pin_call.target = 3
    /\ pin_call.outcome = "returned"
    /\ pins[1].kind = "Output"
    /\ ~channels[pins[1].chan].rx
    /\ pins[2].kind = "Output"
    /\ pins[3].kind = "Input"
    /\ pins[3].chan = pins[2].chan
    /\ pins[3].chan # pins[1].chan

\* connect_to on a source that is already a producer has panicked
C20_PanicWitness ==
    /\ pin_call.op = "connect_to"
    /\ pin_call.outcome = "panicked"
    /\ pins[pin_call.pin].kind = "Output"
    /\ pins[pin_call.target].kind = "None"

---------------------------------------------------------------------------
(* C21                                                                     *)

\* the step is a connect_to call that returned
Connected(source, target) ==
    ConnectCall(source, target) /\ pin_call'.outcome = "returned"

\* C21 as the text states it: immediately after a successful connect_to,
\* value() on the source and value() on the target both return the value the
\* source latched before the call, whatever initial value the target was
\* created with
C21_BothLatchSourceValue ==
    [][\A source \in PinIds, target \in PinIds :
          Connected(source, target) =>
              /\ value(pins', source) = value(pins, source)
              /\ value(pins', target) = value(pins, source)]_vars

\* what the code does: after a successful connect_to the source still
\* latches the value it latched before the call; the target of a Pin latches
\* that value too, the target of an OutputPort keeps the value it latched
\* before the call
C21_LatchedAfterConnectByImpl ==
    [][\A source \in PinIds, target \in PinIds :
          Connected(source, target) =>
              /\ value(pins', source) = value(pins, source)
              /\ pin_impl = "Pin" => value(pins', target) = value(pins, source)
              /\ pin_impl = "Port" => value(pins', target) = value(pins, target)]_vars

\* Pin: pin 1 was created with 5 and pin 3 with 7; after 1.connect_to(3)
\* both latch 5
C21_PinWitness ==
    /\ pin_impl = "Pin"
    /\ pin_call.op = "connect_to"
    /\ pin_call.pin = 1
    /\ pin_call.target = 3
    /\ pin_call.outcome = "returned"
    /\ pin_history.connects = 1
    /\ pin_history.updates = 0
    /\ value(pins, 1) = 5
    /\ value(pins, 3) = 5

\* Port: port 1 was created with 5 and port 3 with 7; after 1.connect_to(3)
\* port 3 still latches 7
C21_PortWitness ==
    /\ pin_impl = "Port"
    /\ pin_call.op = "connect_to"
    /\ pin_call.pin = 1
    /\ pin_call.target = 3
    /\ pin_call.outcome = "returned"
    /\ value(pins, 1) = 5
    /\ value(pins, 3) = 7

---------------------------------------------------------------------------
(* C22                                                                     *)

\* the step is an update() call on p
UpdateCall(p) ==
    /\ pin_history'.updates = pin_history.updates + 1
    /\ pin_call'.op = "update"
    /\ pin_call'.pin = p

\* the call panicked and left pins and channels as they were
Aborted == pin_call'.outcome = "panicked" /\ pins' = pins /\ channels' = channels

\* C22 as the text states it: update() on a pin that is not a Producer (an
\* Unconnected pin or a Consumer) aborts, and wait() on a pin that is not a
\* Consumer (an Unconnected pin or a Producer) aborts; neither call changes
\* the pin's latched value
C22_MisuseAborts ==
    [][\A p \in PinIds :
          /\ (UpdateCall(p) /\ pins[p].kind # "Output") =>
                (pin_call'.outcome = "panicked" /\ value(pins', p) = value(pins, p))
          /\ (WaitCall(p) /\ pins[p].kind # "Input") =>
                (pin_call'.outcome = "panicked" /\ value(pins', p) = value(pins, p))]_vars

\* what the code does: wait() on a pin that is not a Consumer aborts, and so
\* does update() on a Consumer, neither changing pins or channels; update()
\* on an Unconnected pin returns and sends nothing: on a Pin it changes
\* nothing, on an OutputPort it latches the new value
C22_MisuseByImpl ==
    [][\A p \in PinIds :
          /\ (WaitCall(p) /\ pins[p].kind # "Input") => Aborted
          /\ (UpdateCall(p) /\ pins[p].kind = "Input") => Aborted
          /\ (UpdateCall(p) /\ pins[p].kind = "None") =>
                /\ pin_call'.outcome = "returned"
                /\ channels' = channels
                /\ pin_impl = "Pin" => pins' = pins
                /\ pin_impl = "Port" => pins' = [pins EXCEPT ![p].value = pin_call'.arg]]_vars

\* Pin: update(2) on the consumer of pin 1 has panicked
C22_Witness ==
    /\ pin_impl = "Pin"
    /\ pin_call.op = "update"
    /\ pin_call.pin = 3
    /\ pin_call.arg = 2
    /\ pin_call.outcome = "panicked"
    /\ pins[3].kind = "Input"
    /\ pins[1].kind = "Output"
    /\ pins[1].chan = pins[3].chan
    /\ value(pins, 3) # 2

\* wait() on a pin that is a producer has panicked
C22_WaitWitness ==
    /\ pin_call.op = "wait"
    /\ pin_call.outcome = "panicked"
    /\ pins[pin_call.pin].kind = "Output"

\* update(2) on an unconnected pin created with 0 has returned: a Pin still
\* latches 0, an OutputPort latches 2
C22_UnconnectedPinWitness ==
    /\ pin_impl = "Pin"
    /\ pin_call.op = "update"
    /\ pin_call.arg = 2
    /\ pin_call.outcome = "returned"
    /\ pins[pin_call.pin].kind = "None"
    /\ value(pins, pin_call.pin) = 0

C22_UnconnectedPortWitness ==
    /\ pin_impl = "Port"
    /\ pin_call.op = "update"
    /\ pin_call.arg = 2
    /\ pin_call.outcome = "returned"
    /\ pins[pin_call.pin].kind = "None"
    /\ value(pins, pin_call.pin) = 2

---------------------------------------------------------------------------
(* SpecSelect: a component with the two InputPorts 3 and 4, as a           *)
(* BinaryGate has, calling wait_any on slices of them while the threads    *)
(* owning the OutputPorts 1 and 2 connect, update and drop them; the input *)
(* ports live as long as the component does.                               *)

SelectPorts == OutputPorts \cup InputPorts

\* the slices a component can hand to wait_any: its input ports, each at
\* most once since the slice holds them by &mut
Slices ==
    {<<>>} \cup {<<p>> : p \in InputPorts}
           \cup {<<p, q>> : <<p, q>> \in {pq \in InputPorts \X InputPorts : pq[1] # pq[2]}}

\* each port is created with_initial_value, all values distinct
InitSelect ==
    /\ NoCpu
    /\ NoBanks
    /\ NoThreads
    /\ pin_impl = "Port"
    /\ pins = [p \in SelectPorts |-> NewPin(4 + p)]
    /\ channels = <<>>
    /\ pin_call = NoPinCall
    /\ pin_history = NoPinHistory(SelectPorts)

\* InputPort::wait_any(ports): the call returns or panics once select() does
\* not block; select() takes any of the operations that are ready
WaitAny(ports) ==
    /\ pin_impl = "Port"
    /\ pin_call.outcome # "panicked"
    /\ \A i \in 1..Len(ports) : Callable(ports[i])
    /\ ~SelectBlocks(pins, channels, ports)
    /\ pin_history.waits < MaxWaits
    /\ \E idx \in (IF SelectPanics(pins, ports) THEN {0} ELSE Ready(pins, channels, ports)) :
          LET r == InputPort_wait_any(pins, channels, ports, idx)
          IN  /\ PinEffect(r, "wait_any", 0, 0, idx)
              /\ pin_history' =
                   [pin_history EXCEPT
                       !.waits = @ + 1,
                       !.ports = ports,
                       !.log = IF r.ret >= 0
                               THEN [@ EXCEPT ![ports[r.ret + 1]].waits =
                                        Append(@, r.pins[ports[r.ret + 1]].value)]
                               ELSE @]

NextSelect ==
    \/ \E source \in SelectPorts, target \in SelectPorts : Connect(source, target)
    \/ \E p \in SelectPorts, v \in PinValues : Update(p, v)
    \/ \E ports \in Slices : WaitAny(ports)
    \/ \E p \in OutputPorts : DropPin(p)

SpecSelect == InitSelect /\ [][NextSelect]_vars

---------------------------------------------------------------------------
(* C23                                                                     *)

\* the step is a wait_any call on the slice ports
WaitAnyCall(ports) ==
    /\ pin_history'.waits = pin_history.waits + 1
    /\ pin_call'.op = "wait_any"
    /\ pin_history'.ports = ports

\* the slice holds a consumer whose channel is closed and drained
ClosedIn(ports) ==
    \E k \in 1..Len(ports) :
        /\ pins[ports[k]].kind = "Input"
        /\ channels[pins[ports[k]].chan].queue = <<>>
        /\ ~channels[pins[ports[k]].chan].tx

\* the call returned Some(i), having dequeued one value from the pin at
\* position i of the slice and latched it there, every other pin and queue
\* as before
Received(ports) ==
    /\ pin_call'.outcome = "returned"
    /\ pin_call'.ret \in 0..(Len(ports) - 1)
    /\ LET p == ports[pin_call'.ret + 1]
           c == pins[p].chan
       IN  /\ pins[p].kind = "Input"
           /\ channels[c].queue # <<>>
           /\ pins' = [pins EXCEPT ![p].value = Head(channels[c].queue)]
           /\ channels' = [channels EXCEPT ![c].queue = Tail(@)]

\* wait_any blocks while no consumer of the slice has a value or a closed
\* channel
BlocksUntilReady ==
    \A ports \in Slices :
        (/\ \E k \in 1..Len(ports) : pins[ports[k]].kind = "Input"
         /\ \A k \in 1..Len(ports) :
               pins[ports[k]].kind = "Input" => RecvBlocks(channels, pins[ports[k]].chan))
            => ~ENABLED WaitAny(ports)

\* C23 as the text states it: wait_any(ports) on a slice holding a consumer
\* blocks until one of the given consumer pins has a value to receive and
\* returns Some(i) where i is that pin's position in the given slice;
\* exactly one value is dequeued from pin i and becomes its latched value,
\* and the latched value and queue of every other pin are unchanged
C23_WaitAnyReceives ==
    [][\A ports \in Slices :
          (WaitAnyCall(ports) /\ ~SelectPanics(pins, ports)) => Received(ports)]_vars

\* what the code does: wait_any cannot return while every consumer of the
\* slice has an empty queue and a live producer; while no consumer of the
\* slice has a closed and drained channel it returns Some(i) as stated; when
\* one has, wait_any does not block and returns either Some(i) as stated or
\* None, and with None nothing is changed
C23_WaitAnyReceivesOrClosed ==
    /\ []BlocksUntilReady
    /\ [][\A ports \in Slices :
            (WaitAnyCall(ports) /\ ~SelectPanics(pins, ports)) =>
                \/ Received(ports)
                \/ /\ ClosedIn(ports)
                   /\ pin_call'.outcome = "returned"
                   /\ pin_call'.ret = -1
                   /\ pins' = pins
                   /\ channels' = channels]_vars

\* wait_any(&mut [3, 4]) with port 3 unconnected returned Some(1): port 4
\* latched the 2 that was queued for it, port 3 still latches its own value
C23_Witness ==
    /\ pin_call.op = "wait_any"
    /\ pin_history.ports = <<3, 4>>
    /\ pin_call.outcome = "returned"
    /\ pin_call.ret = 1
    /\ pins[3].kind = "None"
    /\ pins[4].kind = "Input"
    /\ value(pins, 4) = 2
    /\ value(pins, 3) = 7
    /\ pin_history.log[4].waits = <<2>>

\* wait_any(&mut [3, 4]) returned None: the producer of port 3 was dropped
\* while a value was queued for port 4
C23_ClosedWitness ==
    /\ pin_call.op = "wait_any"
    /\ pin_history.ports = <<3, 4>>
    /\ pin_call.outcome = "returned"
    /\ pin_call.ret = -1
    /\ pins[3].kind = "Input"
    /\ ~channels[pins[3].chan].tx
    /\ pins[4].kind = "Input"
    /\ channels[pins[4].chan].queue # <<>>

---------------------------------------------------------------------------
(* SpecMemory: one thread that configures the banks of a Memory and then   *)
(* writes bytes to it, as the tests of core/memory.rs do.  read_byte       *)
(* changes nothing: what it returns in a state is MemoryImpl_read_byte     *)
(* of that state.                                                          *)

\* the RomBank of tests::banked_rom
TestRom == RomBank_with_bytes(<<222, 173, 190, 239>>)

\* banks and configs (start_addr, length, bank_id, target_offset): two
\* windows onto one writeable bank; a window longer than its ROM, and than
\* its writeable bank; a ROM page next to a writeable page; a bank that is
\* not writeable; banks that no page maps to; the top page; a bank_id with
\* no bank; bank_id 0
Setups ==
    {<<<<TestBank_new_boxed(512, TRUE)>>, <<<<12288, 512, 1, 0>>, <<32768, 256, 1, 256>>>>>>,
     <<<<TestRom>>, <<<<12288, 1024, 1, 0>>>>>>,
     <<<<TestBank_new_boxed(512, TRUE)>>, <<<<12288, 1024, 1, 0>>>>>>,
     <<<<TestRom, TestBank_new_boxed(512, TRUE)>>,
       <<<<12288, 512, 1, 0>>, <<12544, 256, 2, 256>>>>>>,
     <<<<TestBank_new_boxed(512, FALSE)>>, <<<<12288, 512, 1, 0>>>>>>,
     <<<<TestBank_new_boxed(512, TRUE)>>, <<>>>>,
     <<<<TestRom>>, <<<<65280, 256, 1, 0>>>>>>,
     <<<<TestRom>>, <<<<12288, 256, 2, 0>>>>>>,
     <<<<TestRom>>, <<<<12288, 256, 0, 0>>>>>>}

MemAddresses == {12289, 12291, 12292, 12545, 12800, 32769, 47834, 65535}
MemValues == {205, 171}

InitMemory ==
    /\ NoCpu
    /\ NoPins
    /\ NoBanks
    /\ NoThreads

\* the effect of a call that ended as r
MemEffect(r, op, address, val, configs) ==
    /\ memory' = r.memory
    /\ mem_call' = [mem_call EXCEPT !.op = op, !.address = address, !.value = val,
                                    !.configs = IF op = "configure_banks" THEN configs ELSE @,
                                    !.outcome = r.outcome,
                                    !.ret = r.ret,
                                    !.configures = @ + (IF op = "configure_banks" THEN 1 ELSE 0),
                                    !.writes = @ + (IF op = "write_byte" THEN 1 ELSE 0)]
    /\ UNCHANGED <<mem_lock, mem_threads, cpuvars, pinvars, runvars>>

\* mem.configure_banks(banks, configs)
ConfigureBanks(banks, configs) ==
    /\ mem_call.outcome # "panicked"
    /\ mem_call.configures < MaxConfigures
    /\ MemEffect(configure_banks(memory, banks, configs), "configure_banks", 0, 0, configs)

\* mem.write_byte(address, val)
WriteByte(address, val) ==
    /\ mem_call.outcome # "panicked"
    /\ mem_call.writes < MaxWrites
    /\ MemEffect(MemoryImpl_write_byte(memory, address, val), "write_byte", address, val, <<>>)

NextMemory ==
    \/ \E setup \in Setups : mem_call.writes = 0 /\ ConfigureBanks(setup[1], setup[2])
    \/ \E address \in MemAddresses, val \in MemValues : WriteByte(address, val)

SpecMemory == InitMemory /\ [][NextMemory]_vars

---------------------------------------------------------------------------
(* C24                                                                     *)

\* the step is the call write_byte(address, val)
WriteCall(address, val) ==
    /\ mem_call'.writes = mem_call.writes + 1
    /\ mem_call'.op = "write_byte"
    /\ mem_call'.address = address
    /\ mem_call'.value = val

\* how read_byte(address) ends on the memory m, and what it returns
Read(m, address) ==
    [outcome |-> MemoryImpl_read_byte(m, address).outcome,
     ret |-> MemoryImpl_read_byte(m, address).ret]

ReadsAs(m, address, val) == Read(m, address) = [outcome |-> "returned", ret |-> val]

\* the page of the address is mapped to no bank
Unmapped(m, address) == MapAt(m, address \div 256)[1] = 0

\* the addresses read back after a write: those written, their neighbours,
\* the same offsets in other pages, and the first and last cells
ProbeAddresses ==
    MemAddresses \cup {0, 218, 12288, 12290, 12543, 12544, 12799, 12801, 32768,
                       33025, 47578, 47833, 47835, 48090, 65279, 65280, 65534}

\* C24: for every address whose page is not mapped to a bank and every byte
\* v, write_byte(addr, v) returns and read_byte(addr) after it returns v,
\* also when banks are configured on other pages, and the write changes the
\* value read at no other address
C24_UnmappedWriteThenRead ==
    [][\A address \in MemAddresses, val \in MemValues :
          (WriteCall(address, val) /\ Unmapped(memory, address)) =>
              /\ mem_call'.outcome = "returned"
              /\ ReadsAs(memory', address, val)
              /\ \A other \in ProbeAddresses \ {address} :
                    Read(memory', other) = Read(memory, other)]_vars

\* with a writeable bank mapped at $3000-$31FF and $8000-$80FF,
\* write_byte($BADA, $CD) was made and read_byte($BADA) returns $CD
C24_Witness ==
    /\ mem_call.op = "write_byte"
    /\ mem_call.address = 47834
    /\ mem_call.value = 205
    /\ mem_call.outcome = "returned"
    /\ Len(memory.banks) = 1
    /\ MapAt(memory, 48)[1] = 1
    /\ MapAt(memory, 128)[1] = 1
    /\ Unmapped(memory, 47834)
    /\ ReadsAs(memory, 47834, 205)

---------------------------------------------------------------------------
(* C25                                                                     *)

\* the configs of the list that cover the address, by position
Covering(configs, address) ==
    {k \in 1..Len(configs) :
        configs[k][1] <= address /\ address < configs[k][1] + configs[k][2]}

\* the last config of the last configure_banks that covers the address
Window(address) ==
    mem_call.configs[CHOOSE k \in Covering(mem_call.configs, address) :
                        \A j \in Covering(mem_call.configs, address) : j <= k]

\* the address lies in a window onto a bank that is installed
Banked(address) ==
    /\ mem_call.outcome = "returned" \/ mem_call.op # "configure_banks"
    /\ Covering(mem_call.configs, address) # {}
    /\ Window(address)[3] \in 1..Len(memory.banks)

\* the bank-local offset the address reaches through its window
LocalOffset(address) == address - Window(address)[1] + Window(address)[4]

RomMapped(address) ==
    Banked(address) /\ memory.banks[Window(address)[3]].kind = "Rom"

\* the byte of the ROM image of tests::banked_rom at an offset, 0 past its end
RomByte(offset) ==
    IF offset < 4 THEN <<222, 173, 190, 239>>[offset + 1] ELSE 0

\* every read of a ROM-mapped address returns the ROM's byte
RomReads ==
    \A address \in ProbeAddresses :
        RomMapped(address) => ReadsAs(memory, address, RomByte(LocalOffset(address)))

\* C25: for every address in a ROM-mapped region, read_byte returns the ROM
\* byte at the bank-local offset, or 0 when that offset is past the end of
\* the ROM image; write_byte(addr, v) never aborts, leaves every subsequent
\* read_byte(addr) unchanged, and sets the underlying RAM cell at addr to v
C25_RomShadow ==
    /\ []RomReads
    /\ [][\A address \in MemAddresses, val \in MemValues :
            (WriteCall(address, val) /\ RomMapped(address)) =>
                /\ mem_call'.outcome = "returned"
                /\ Read(memory', address) = Read(memory, address)
                /\ Memory_ram(memory', address) = val
                /\ memory'.banks = memory.banks]_vars

\* tests::banked_rom: with the ROM DE AD BE EF at $3000, write_byte($3003,
\* $CD) was made; read_byte($3003) returns $EF, read_byte($3004), past the
\* end of the image, returns 0, and the RAM cell at $3003 holds $CD
C25_Witness ==
    /\ mem_call.op = "write_byte"
    /\ mem_call.address = 12291
    /\ mem_call.value = 205
    /\ mem_call.outcome = "returned"
    /\ RomMapped(12291)
    /\ RomMapped(12292)
    /\ LocalOffset(12291) = 3
    /\ ReadsAs(memory, 12291, 239)
    /\ ReadsAs(memory, 12292, 0)
    /\ Memory_ram(memory, 12291) = 205

---------------------------------------------------------------------------
(* C26                                                                     *)

\* the address lies in a window onto a writeable bank that holds its offset
WriteableMapped(address) ==
    /\ Banked(address)
    /\ is_writeable(memory.banks[Window(address)[3]], LocalOffset(address))
    /\ LocalOffset(address) < memory.banks[Window(address)[3]].size

\* the two addresses lie equally far into two windows onto the same bank
\* that have different target_offsets
SameBankOtherWindow(a, b) ==
    /\ WriteableMapped(a)
    /\ WriteableMapped(b)
    /\ Window(a)[3] = Window(b)[3]
    /\ Window(a)[4] # Window(b)[4]
    /\ a - Window(a)[1] = b - Window(b)[1]

\* C26: for a page mapped by a config (start_addr, length, bank_id,
\* target_offset) to a writeable bank, write_byte(addr, v) is delegated to
\* bank bank_id - 1 with bank-local offset addr - start_addr + target_offset
\* (that cell of the bank becomes v and no other) and the Memory layer does
\* not itself write ram[addr]; a following read_byte(addr) returns v; two
\* windows onto the same bank with different target_offset reach different
\* bank-local offsets (a write through one is not read through the other)
C26_WriteableBank ==
    [][\A address \in MemAddresses, val \in MemValues :
          (WriteCall(address, val) /\ WriteableMapped(address)) =>
              /\ mem_call'.outcome = "returned"
              /\ memory'.banks =
                    [memory.banks EXCEPT ![Window(address)[3]].cells =
                        MemWrite(@, address - Window(address)[1] + Window(address)[4], val)]
              /\ read_bank_byte(memory', Window(address)[3], LocalOffset(address), 0) = val
              /\ memory'.ram = memory.ram
              /\ memory'.map = memory.map
              /\ ReadsAs(memory', address, val)
              /\ \A other \in ProbeAddresses :
                    SameBankOtherWindow(address, other) =>
                        Read(memory', other) = Read(memory, other)]_vars

\* tests::banked_ram with a 512-byte bank: through the window at $8000 with
\* target_offset $100, write_byte($8001, $AB) reached offset $101 of bank 1;
\* read_byte($8001) returns $AB, the RAM cell is still 0, and $3001, as far
\* into the window at $3000, still reads 0
C26_Witness ==
    /\ mem_call.op = "write_byte"
    /\ mem_call.address = 32769
    /\ mem_call.value = 171
    /\ mem_call.outcome = "returned"
    /\ mem_call.writes = 1
    /\ WriteableMapped(32769)
    /\ LocalOffset(32769) = 257
    /\ read_bank_byte(memory, 1, 257, 0) = 171
    /\ ReadsAs(memory, 32769, 171)
    /\ Memory_ram(memory, 32769) = 0
    /\ SameBankOtherWindow(32769, 12289)
    /\ ReadsAs(memory, 12289, 0)

---------------------------------------------------------------------------
(* SpecConfigure: configure_banks called, and called again, with lists of  *)
(* configs that it accepts and that it rejects.                            *)

BankSets ==
    {<<TestBank_new_boxed(512, TRUE)>>,
     <<TestRom, TestBank_new_boxed(512, TRUE)>>}

\* (start_addr, length, bank_id, target_offset) that configure_banks accepts
GoodConfigs ==
    {<<12288, 512, 1, 0>>, <<32768, 256, 1, 256>>, <<12544, 256, 2, 256>>,
     <<12288, 1024, 1, 0>>, <<65280, 256, 1, 0>>, <<12288, 256, 0, 0>>,
     <<0, 65280, 2, 0>>}

\* and that it rejects: the last page past 255, start_addr and length not
\* multiples of 256, no length, start_addr below target_offset
BadConfigs ==
    {<<65280, 512, 1, 0>>, <<512, 65280, 1, 0>>, <<12416, 256, 1, 0>>,
     <<12288, 384, 1, 0>>, <<12288, 0, 1, 0>>, <<256, 256, 1, 512>>}

ConfigLists ==
    {<<>>} \cup {<<c>> : c \in GoodConfigs \cup BadConfigs}
           \cup {<<g, c>> : <<g, c>> \in GoodConfigs \X (GoodConfigs \cup BadConfigs)}
           \cup {<<b, g>> : <<b, g>> \in BadConfigs \X GoodConfigs}

NextConfigure ==
    \E banks \in BankSets, configs \in ConfigLists : ConfigureBanks(banks, configs)

SpecConfigure == InitMemory /\ [][NextConfigure]_vars

---------------------------------------------------------------------------
(* C27                                                                     *)

\* the step is the call configure_banks(.., configs)
ConfigureCall(configs) ==
    /\ mem_call'.configures = mem_call.configures + 1
    /\ mem_call'.op = "configure_banks"
    /\ mem_call'.configs = configs

\* the config is one the claim says configure_banks aborts on
Rejected(e) ==
    \/ e[1] % 256 # 0
    \/ e[2] % 256 # 0
    \/ e[2] = 0
    \/ e[1] < e[4]
    \/ (e[1] + e[2] - 1) \div 256 > 255

\* the configs of the list whose pages include the page, by position
CoveringPage(configs, page) ==
    {k \in 1..Len(configs) :
        configs[k][1] \div 256 <= page /\ page <= (configs[k][1] + configs[k][2] - 1) \div 256}

\* what the page maps to after configure_banks(.., configs) by the claim
PageMapping(configs, page) ==
    IF CoveringPage(configs, page) = {} THEN <<0, 0>>
    ELSE LET k == CHOOSE k \in CoveringPage(configs, page) :
                     \A j \in CoveringPage(configs, page) : j <= k
         IN  <<configs[k][3], configs[k][1] - configs[k][4]>>

\* C27: configure_banks aborts when any config has a start_addr or length
\* that is not a multiple of 256, a length of 0, start_addr < target_offset,
\* or a last page above 255, and only then; when it returns normally, every
\* page from start_addr >> 8 through (start_addr + length - 1) >> 8 of each
\* config maps to (bank_id, start_addr - target_offset), a later config
\* overriding an earlier one on shared pages, and every page covered by no
\* config is unmapped, whatever mapping existed before the call
C27_ConfigureBanks ==
    [][\A configs \in ConfigLists :
          ConfigureCall(configs) =>
              /\ mem_call'.outcome = "panicked" <=>
                    \E k \in 1..Len(configs) : Rejected(configs[k])
              /\ mem_call'.outcome = "returned" =>
                    \A page \in Pages : MapAt(memory', page) = PageMapping(configs, page)]_vars

\* a second configure_banks returned: pages $30 and $31 were given to bank
\* 1, then page $31 to bank 2; the top page, mapped by the first call, is
\* unmapped again
C27_Witness ==
    /\ mem_call.op = "configure_banks"
    /\ mem_call.configures = 2
    /\ mem_call.outcome = "returned"
    /\ mem_call.configs = <<<<12288, 512, 1, 0>>, <<12544, 256, 2, 256>>>>
    /\ MapAt(memory, 48) = <<1, 12288>>
    /\ MapAt(memory, 49) = <<2, 12288>>
    /\ MapAt(memory, 50) = <<0, 0>>
    /\ MapAt(memory, 255) = <<0, 0>>

\* configure_banks has aborted on its second config, the first being applied
C27_AbortWitness ==
    /\ mem_call.op = "configure_banks"
    /\ mem_call.outcome = "panicked"
    /\ Len(mem_call.configs) = 2
    /\ ~Rejected(mem_call.configs[1])
    /\ Rejected(mem_call.configs[2])

---------------------------------------------------------------------------
(* SpecLock: a Memory shared by two threads.  Thread 1 copies blocks       *)
(* (write_block, read_block), thread 2 is a peripheral accessing single    *)
(* bytes (write_byte, read_byte); each call is a lock(), its byte accesses *)
(* and the drop of the guard.                                              *)

\* thread 1 is the copier, thread 2 the peripheral
MemThreads == {1, 2}

\* the calls a thread makes: (method, start, data); a read starts from a
\* buffer of zeros
MemCalls(t) ==
    IF t = 1
    THEN {<<"write_block", 4096, <<1, 2>>>>, <<"read_block", 4096, <<0, 0>>>>}
    ELSE {<<"write_byte", 4096, <<7>>>>, <<"write_byte", 4097, <<7>>>>,
          <<"read_byte", 4096, <<0>>>>, <<"read_byte", 4097, <<0>>>>}

InitLock ==
    /\ NoCpu
    /\ NoPins
    /\ memory = Memory_new
    /\ mem_lock = 0
    /\ mem_threads = [t \in MemThreads |-> IdleThread]
    /\ mem_call = NoMemCall
    /\ NoThreads

\* the thread enters a method of Memory
Call(t, op, start, data) ==
    /\ mem_threads[t].pc \in {"idle", "done"}
    /\ mem_threads[t].calls < MaxMemCalls
    /\ mem_threads' = [mem_threads EXCEPT ![t] =
          [op |-> op, pc |-> "waiting", start |-> start, data |-> data, i |-> 0,
           locks |-> 0, calls |-> @.calls + 1]]
    /\ UNCHANGED <<memory, mem_lock, mem_call, cpuvars, pinvars, runvars>>

\* self.0.lock() returns: the Mutex was free
Acquire(t) ==
    /\ mem_threads[t].pc = "waiting"
    /\ mem_lock = 0
    /\ mem_lock' = t
    /\ mem_threads' = [mem_threads EXCEPT ![t].pc = "locked", ![t].locks = @ + 1]
    /\ UNCHANGED <<memory, mem_call, cpuvars, pinvars, runvars>>

\* one byte is read or written under the guard; the guard is kept for the
\* bytes GuardedBytes gives it
Access(t) ==
    LET th == mem_threads[t]
        r == BlockAccess(memory, th)
        more == th.i + 1 < Len(th.data)
        kept == (th.i + 1) % GuardedBytes(th) # 0
    IN  /\ th.pc = "locked"
        /\ th.i < Len(th.data)
        /\ memory' = r.memory
        /\ mem_threads' = [mem_threads EXCEPT
              ![t].i = @ + 1,
              ![t].data = IF th.op \in {"read_byte", "read_block"}
                          THEN [@ EXCEPT ![th.i + 1] = r.ret] ELSE @,
              ![t].pc = IF more /\ ~kept THEN "waiting" ELSE "locked"]
        /\ mem_lock' = IF more /\ ~kept THEN 0 ELSE mem_lock
        /\ UNCHANGED <<mem_call, cpuvars, pinvars, runvars>>

\* the statement ends: the guard is dropped and the method returns
Release(t) ==
    LET th == mem_threads[t]
    IN  /\ th.pc = "locked"
        /\ th.i = Len(th.data)
        /\ mem_lock' = 0
        /\ mem_threads' = [mem_threads EXCEPT ![t].pc = "done"]
        /\ mem_call' = [mem_call EXCEPT !.op = th.op, !.thread = t, !.address = th.start,
                                        !.value = th.data[1], !.outcome = "returned",
                                        !.ret = IF th.op = "read_byte" THEN th.data[1] ELSE -1]
        /\ UNCHANGED <<memory, cpuvars, pinvars, runvars>>

NextLock ==
    \/ \E t \in MemThreads : \E c \in MemCalls(t) : Call(t, c[1], c[2], c[3])
    \/ \E t \in MemThreads : Acquire(t)
    \/ \E t \in MemThreads : Access(t)
    \/ \E t \in MemThreads : Release(t)

SpecLock == InitLock /\ [][NextLock]_vars

---------------------------------------------------------------------------
(* C28                                                                     *)

BlockOps == {"read_block", "write_block"}
ByteOps == {"read_byte", "write_byte"}

\* the thread is in a block copy, between two of its bytes
MidCopy(t) ==
    /\ mem_threads[t].op \in BlockOps
    /\ mem_threads[t].pc \in {"waiting", "locked"}
    /\ 0 < mem_threads[t].i
    /\ mem_threads[t].i < Len(mem_threads[t].data)

\* the step is a byte access by the thread
AccessBy(u) == mem_threads'[u].i = mem_threads[u].i + 1

\* every single read_byte or write_byte holds the lock for exactly its one
\* access: it has the lock while "locked" and only then, and has returned
\* after one lock() and one access
OneAccessPerByteCall ==
    \A t \in MemThreads :
        /\ mem_threads[t].pc = "locked" <=> mem_lock = t
        /\ (mem_threads[t].op \in ByteOps /\ mem_threads[t].pc = "done") =>
              (mem_threads[t].locks = 1 /\ mem_threads[t].i = 1)

\* C28 as the text states it: read_block and write_block acquire and
\* release the memory lock once per byte (a copy that has returned has
\* taken the lock as often as it has bytes, and between two of its bytes it
\* does not hold the lock), so that a read_byte or write_byte by another
\* thread can take effect between two bytes of a block copy; every single
\* read_byte or write_byte holds the lock for exactly that one access
C28_LockPerByte ==
    /\ OneAccessPerByteCall
    /\ \A t \in MemThreads :
          /\ (mem_threads[t].op \in BlockOps /\ mem_threads[t].pc = "done") =>
                mem_threads[t].locks = Len(mem_threads[t].data)
          /\ (MidCopy(t) /\ mem_threads[t].pc = "waiting") => mem_lock # t

\* what the code does: read_block and write_block take the lock once for
\* the whole block and hold it from the first byte to the last, so no
\* access by another thread takes effect between two bytes of a block copy;
\* every single read_byte or write_byte holds the lock for exactly that one
\* access
C28_LockPerBlock ==
    /\ []OneAccessPerByteCall
    /\ [](\A t \in MemThreads :
            /\ (mem_threads[t].op \in BlockOps /\ mem_threads[t].pc = "done") =>
                  mem_threads[t].locks = 1
            /\ MidCopy(t) => mem_lock = t)
    /\ [][\A t \in MemThreads, u \in MemThreads :
            (u # t /\ MidCopy(t)) => ~AccessBy(u)]_vars

\* the copier has written the first of its two bytes and holds the lock;
\* the peripheral waits for the lock with its write_byte
C28_Witness ==
    /\ MidCopy(1)
    /\ mem_threads[1].op = "write_block"
    /\ mem_threads[1].locks = 1
    /\ mem_lock = 1
    /\ mem_threads[2].op = "write_byte"
    /\ mem_threads[2].pc = "waiting"
    /\ MemRead(memory.ram, 4096) = 1
    /\ MemRead(memory.ram, 4097) = 0

\* a read_block has returned the two bytes under one lock()
C28_ReadWitness ==
    /\ mem_threads[1].op = "read_block"
    /\ mem_threads[1].pc = "done"
    /\ mem_threads[1].locks = 1
    /\ mem_threads[1].data = <<7, 7>>

---------------------------------------------------------------------------
(* SpecRunLoop: a CPU built over a looping program, its clock_in and       *)
(* phi1_out wired or not to the output of a driver and to the input of a   *)
(* listener, then added to a Computer and started; the driver updates and  *)
(* drops its output at any moment, and Computer::stop raises the stop flag. *)

\* C6502::new: phi0_in, phi1_out and phi2_out, among the pins of the system
phi0_in == InputPorts \ {4}
phi1_out == OutputPorts \ {1}
phi2_out == {5}
PortOf(field) == CHOOSE p \in field : TRUE

\* the pins of the CPU as created (false), and those of its neighbours
InitRunLoop ==
    /\ \E checks \in BOOLEAN :
          CpuInit(write_block(write_block(EmptyRam, 57344, ProgramLoop),
                              RESET_VECTOR, <<0, 224>>), checks)
    /\ NoBanks
    /\ NoThreads
    /\ pin_impl = "Port"
    /\ pins = [p \in 1..5 |-> NewPin(FALSE)]
    /\ channels = <<>>
    /\ pin_call = NoPinCall
    /\ pin_history = NoPinHistory(1..5)

\* Computer::start, for the CPU
Start ==
    /\ cpu_thread.at = "Initial"
    /\ cpu_thread' = [cpu_thread EXCEPT !.at = "Running"]
    /\ UNCHANGED <<cpuvars, pinvars, memvars, clock, computer>>

\* Computer::stop, up to the store of the CPU's flag
Stop ==
    /\ cpu_thread.at # "Initial"
    /\ ~cpu_thread.stop
    /\ cpu_thread' = [cpu_thread EXCEPT !.stop = TRUE]
    /\ UNCHANGED <<cpuvars, pinvars, memvars, clock, computer>>

\* what a turn of the loop leaves in the history of the thread
Turn(signal, previous, stop, ps, steps) ==
    [signal |-> signal, previous |-> previous, stop |-> stop,
     phi1 |-> ps[PortOf(phi1_out)].value, phi2 |-> ps[PortOf(phi2_out)].value,
     steps |-> steps]

\* a loop that calls step() on the rising edges of the signal only
Stepping_RisingEdge(signal, previous) == signal /\ ~previous

\* `if signal { self.step(); cycles += 1; }`: previous is the value phi0_in
\* had latched before the wait, which the loop does not look at
Stepping(signal, previous) == signal

\* one turn of the loop of C6502::run, from the moment phi0_in.wait() no
\* longer blocks: the stop flag, the two updates, and step() when the signal
\* is true
RunTurn ==
    /\ cpu_thread.at = "Running"
    /\ Len(cpu_thread.turns) < MaxTicks
    /\ pins[PortOf(phi0_in)].kind = "Input" =>
          ~RecvBlocks(channels, pins[PortOf(phi0_in)].chan)
    /\ LET w == InputPort_wait(pins, channels, PortOf(phi0_in))
           signal == w.ret
           u1 == OutputPort_update(w.pins, w.channels, PortOf(phi1_out), ~signal)
           u2 == OutputPort_update(u1.pins, u1.channels, PortOf(phi2_out), signal)
           previous == pins[PortOf(phi0_in)].value
       IN  CASE w.outcome = "panicked" ->
                  /\ cpu_thread' = [cpu_thread EXCEPT !.at = "Panicked"]
                  /\ pin_call' = [op |-> "wait", pin |-> PortOf(phi0_in), target |-> 0,
                                  arg |-> 0, outcome |-> "panicked", ret |-> -1]
                  /\ UNCHANGED <<cpuvars, pins, channels>>
             [] w.outcome = "returned" /\ cpu_thread.stop ->
                  /\ cpu_thread' =
                       [cpu_thread EXCEPT
                           !.at = "Returned",
                           !.turns = Append(@, Turn(signal, previous, TRUE, w.pins, 0))]
                  /\ pins' = w.pins
                  /\ channels' = w.channels
                  /\ pin_call' = [op |-> "wait", pin |-> PortOf(phi0_in), target |-> 0,
                                  arg |-> 0, outcome |-> "returned", ret |-> signal]
                  /\ UNCHANGED cpuvars
             [] OTHER ->
                  /\ pins' = u2.pins
                  /\ channels' = u2.channels
                  /\ pin_call' = [op |-> "update", pin |-> PortOf(phi2_out), target |-> 0,
                                  arg |-> signal, outcome |-> "returned", ret |-> -1]
                  /\ IF Stepping(signal, previous)
                     THEN /\ StepCall
                          /\ calls' = [calls EXCEPT !.last = "step", !.steps = @ + 1]
                          /\ UNCHANGED <<cputest, reference>>
                     ELSE UNCHANGED cpuvars
                  /\ cpu_thread' =
                       [cpu_thread EXCEPT
                           !.at = IF panicked' THEN "Panicked" ELSE "Running",
                           !.cycles = IF Stepping(signal, previous) /\ ~panicked' THEN @ + 1 ELSE @,
                           !.turns = Append(@, Turn(signal, previous, FALSE, u2.pins,
                                                    calls'.steps - calls.steps))]
    /\ UNCHANGED <<pin_impl, pin_history, memvars, clock, computer>>

NextRunLoop ==
    \/ /\ cpu_thread.at = "Initial"
       /\ \/ \E source \in OutputPorts, target \in InputPorts : Connect(source, target)
          \/ Reset
          \/ Start
    \/ \E v \in BOOLEAN : Update(1, v)
    \/ DropPin(1)
    \/ Wait(4)
    \/ Stop
    \/ RunTurn

SpecRunLoop == InitRunLoop /\ [][NextRunLoop]_vars

---------------------------------------------------------------------------
(* C29: the run loop of the CPU.                                           *)

\* the turns of the loop in which wait() returned with the stop flag unset
Unstopped == {i \in 1..Len(cpu_thread.turns) : ~cpu_thread.turns[i].stop}

\* the signal is true and the input had latched false before
RisingEdge(t) == t.signal /\ ~t.previous

\* the turn set phi1_out to NOT s and phi2_out to s
PhasesFollow(t) == t.phi1 = ~t.signal /\ t.phi2 = t.signal

\* C29 (as claimed): for every value s returned by phi0_in.wait() while the
\* stop flag is unset, phi1_out is updated to NOT s and phi2_out to s, and
\* step() is executed exactly once if s is a rising edge (s true, the
\* previously latched input false) and not at all otherwise; the number of
\* step() calls equals the number of rising edges seen on phi0_in.
C29_StepOnRisingEdge ==
    /\ \A i \in Unstopped :
          /\ PhasesFollow(cpu_thread.turns[i])
          /\ cpu_thread.turns[i].steps = IF RisingEdge(cpu_thread.turns[i]) THEN 1 ELSE 0
    /\ calls.steps = Cardinality({i \in Unstopped : RisingEdge(cpu_thread.turns[i])})

\* C29 (what the loop does): for every value s returned by phi0_in.wait()
\* while the stop flag is unset, phi1_out is updated to NOT s and phi2_out
\* to s, and step() is executed exactly once if s is true, whatever the
\* input had latched before, and not at all if s is false; the number of
\* step() calls equals the number of true values returned, and the turn that
\* sees the stop flag updates nothing and does not step.
C29_StepOnHighLevel ==
    /\ \A i \in Unstopped :
          /\ PhasesFollow(cpu_thread.turns[i])
          /\ cpu_thread.turns[i].steps = IF cpu_thread.turns[i].signal THEN 1 ELSE 0
    /\ calls.steps = Cardinality({i \in Unstopped : cpu_thread.turns[i].signal})
    /\ \A i \in 1..Len(cpu_thread.turns) :
          cpu_thread.turns[i].stop => cpu_thread.turns[i].steps = 0

\* the driver sent true twice: two steps, one rising edge
C29_Witness ==
    /\ Len(cpu_thread.turns) = 2
    /\ Unstopped = {1, 2}
    /\ RisingEdge(cpu_thread.turns[1])
    /\ cpu_thread.turns[2].signal /\ cpu_thread.turns[2].previous
    /\ calls.steps = 2
    /\ pins[1].kind = "Output"

\* the driver is gone with its output high: wait() keeps returning true and
\* every turn steps, although nothing was received
C29_ClosedWitness ==
    /\ pins[1].kind = "Dropped"
    /\ pin_history.log[1].updates = <<TRUE>>
    /\ Len(cpu_thread.turns) = 3
    /\ \A i \in 1..3 : ~cpu_thread.turns[i].stop /\ cpu_thread.turns[i].steps = 1

\* a falling edge and the turn that sees the stop flag
C29_StopWitness ==
    /\ cpu_thread.at = "Returned"
    /\ Len(cpu_thread.turns) = 3
    /\ Unstopped = {1, 2}
    /\ ~cpu_thread.turns[2].signal /\ cpu_thread.turns[2].previous
    /\ cpu_thread.turns[2].phi1 /\ ~cpu_thread.turns[2].phi2
    /\ calls.steps = 1

---------------------------------------------------------------------------
(* SpecClock: a Clock whose output (pin 1) is wired or not to an input,    *)
(* then added to a Computer and started; the owner of the input waits for  *)
(* values or drops it, and Computer::stop raises the stop flag.  With pins *)
(* the Clock keeps its level in state and sends 0 or 0xFF; with ports the  *)
(* level is the latched value of the output itself.                        *)

\* the output of the Clock, among the pins of the system
ClockOutput == CHOOSE p \in OutputPorts : p \notin phi1_out

\* Clock::state, and the level of the output as the Clock sees it
Clock_state(c, ps) ==
    IF pin_impl = "Pin" THEN c.state # 0 ELSE ps[ClockOutput].value

\* the latched value of a pin is high
High(v) == IF pin_impl = "Pin" THEN v # 0 ELSE v

\* a toggle that sends what fetch_xor returns, the level before the toggle
Clock_toggle_Previous(c, ps, chs) ==
    IF pin_impl = "Pin"
    THEN LET tick == IF c.state = 0 THEN 255 ELSE 0
             r == Pin_update(ps, chs, ClockOutput, c.state)
         IN  [clock |-> [c EXCEPT !.state = tick, !.toggles = @ + 1,
                                  !.emitted = Append(@, c.state),
                                  !.late = IF c.stop THEN @ + 1 ELSE @,
                                  !.at = IF r.outcome = "panicked"
                                         THEN "Panicked" ELSE "Sleeping"],
              pins |-> r.pins, channels |-> r.channels]
    ELSE LET r == OutputPort_update(ps, chs, ClockOutput, ps[ClockOutput].value)
         IN  [clock |-> [c EXCEPT !.toggles = @ + 1,
                                  !.emitted = Append(@, ps[ClockOutput].value),
                                  !.late = IF c.stop THEN @ + 1 ELSE @,
                                  !.at = "Sleeping"],
              pins |-> r.pins, channels |-> r.channels]

\* `fetch_xor(0xFF) ^ 0xFF` and `output.update(tick)`, or with ports the
\* update of the output to the opposite of its latched value
Clock_toggle(c, ps, chs) ==
    IF pin_impl = "Pin"
    THEN LET tick == IF c.state = 0 THEN 255 ELSE 0
             r == Pin_update(ps, chs, ClockOutput, tick)
         IN  [clock |-> [c EXCEPT !.state = tick, !.toggles = @ + 1,
                                  !.emitted = Append(@, tick),
                                  !.late = IF c.stop THEN @ + 1 ELSE @,
                                  !.at = IF r.outcome = "panicked"
                                         THEN "Panicked" ELSE "Sleeping"],
              pins |-> r.pins, channels |-> r.channels]
    ELSE LET r == OutputPort_update(ps, chs, ClockOutput, ~ps[ClockOutput].value)
         IN  [clock |-> [c EXCEPT !.toggles = @ + 1,
                                  !.emitted = Append(@, ~ps[ClockOutput].value),
                                  !.late = IF c.stop THEN @ + 1 ELSE @,
                                  !.at = "Sleeping"],
              pins |-> r.pins, channels |-> r.channels]

\* a loop that looks at the stop flag only after it has toggled the output
Clock_run_StopAfterToggle(c, ps, chs) ==
    LET counted == [c EXCEPT !.tick_count = @ + 1]
        r == Clock_toggle(counted, ps, chs)
    IN  IF c.stop /\ r.clock.at # "Panicked"
        THEN [r EXCEPT !.clock.at = "Returned"]
        ELSE r

\* one turn of the loop of Clock::run, from the end of its sleep: the tick
\* is counted, then the stop flag ends the loop, else the output toggles
Clock_run(c, ps, chs) ==
    LET counted == [c EXCEPT !.tick_count = @ + 1]
    IN  IF c.stop
        THEN [clock |-> [counted EXCEPT !.at = "Returned"], pins |-> ps, channels |-> chs]
        ELSE Clock_toggle(counted, ps, chs)

\* Clock::new; the pins as created
InitClock ==
    /\ NoCpu
    /\ NoBanks
    /\ NoThreads
    /\ pin_impl \in {"Pin", "Port"}
    /\ pins = [p \in PinIds |-> NewPin(IF pin_impl = "Pin" THEN 0 ELSE FALSE)]
    /\ channels = <<>>
    /\ pin_call = NoPinCall
    /\ pin_history = NoPinHistory(PinIds)

\* Computer::start, for the Clock
ClockStart ==
    /\ clock.at = "Initial"
    /\ clock' = [clock EXCEPT !.at = "Sleeping"]
    /\ UNCHANGED <<cpuvars, pinvars, memvars, cpu_thread, computer>>

\* Computer::stop, up to the store of the Clock's flag
ClockStop ==
    /\ clock.at # "Initial"
    /\ ~clock.stop
    /\ clock' = [clock EXCEPT !.stop = TRUE]
    /\ UNCHANGED <<cpuvars, pinvars, memvars, cpu_thread, computer>>

\* the thread of Clock::run wakes up and takes one turn of the loop
Tick ==
    /\ clock.at = "Sleeping"
    /\ clock.tick_count < MaxTicks
    /\ LET r == Clock_run(clock, pins, channels)
       IN  /\ clock' = r.clock
           /\ pins' = r.pins
           /\ channels' = r.channels
    /\ UNCHANGED <<cpuvars, pin_impl, pin_call, pin_history, memvars, cpu_thread, computer>>

NextClock ==
    \/ /\ clock.at = "Initial"
       /\ \/ \E source \in PinIds, target \in PinIds : Connect(source, target)
          \/ ClockStart
    \/ \E p \in PinIds \ {ClockOutput} : Wait(p)
    \/ \E p \in PinIds \ {ClockOutput} : DropPin(p)
    \/ ClockStop
    \/ Tick

SpecClock == InitClock /\ [][NextClock]_vars

---------------------------------------------------------------------------
(* C30: the tick count Clock::run reports and the level it leaves.         *)

\* Clock::run has left its loop and reports tick_count
ClockReturned == clock.at = "Returned"

Odd(n) == n % 2 = 1

\* C30 (as claimed): when Clock::run returns, the tick count it reports is
\* odd exactly when the output pin's latched value is high, the output
\* having started low.
C30_OddTicksEndHigh ==
    ClockReturned => (Odd(clock.tick_count) <=> High(pins[ClockOutput].value))

\* C30 (what run does): the turn of the loop that sees the stop flag counts
\* its tick and toggles nothing, so when Clock::run returns the tick count
\* is one more than the number of toggles and the level of the Clock is high
\* exactly when the tick count is even; so is the latched value of the
\* output, except that of a Pin nothing was connected to, which stays low.
C30_EvenTicksEndHigh ==
    ClockReturned =>
        /\ clock.tick_count = clock.toggles + 1
        /\ Clock_state(clock, pins) <=> ~Odd(clock.tick_count)
        /\ IF pin_impl = "Pin" /\ pins[ClockOutput].kind = "None"
           THEN ~High(pins[ClockOutput].value)
           ELSE High(pins[ClockOutput].value) <=> ~Odd(clock.tick_count)

\* three ticks reported after two toggles: the connected output ends low
C30_Witness ==
    /\ ClockReturned
    /\ clock.tick_count = 3
    /\ pins[ClockOutput].kind = "Output"
    /\ ~High(pins[ClockOutput].value)

\* two ticks reported after one toggle: the output ends high
C30_HighWitness ==
    /\ ClockReturned
    /\ clock.tick_count = 2
    /\ pins[ClockOutput].kind = "Output"
    /\ High(pins[ClockOutput].value)

\* a Pin nobody was connected to stays low while the Clock's state toggles
C30_UnconnectedWitness ==
    /\ ClockReturned
    /\ pin_impl = "Pin"
    /\ clock.tick_count = 2
    /\ clock.state = 255
    /\ pins[ClockOutput] = NewPin(0)

---------------------------------------------------------------------------
(* C36: the values a Clock emits.  A value is emitted when run passes it   *)
(* to the update of the output.                                            *)

\* C36: the values a Clock emits on its output strictly alternate: the first
\* is high and each is the negation of the one before; Clock::state() equals
\* the last emitted value (low before the first); and the turn of the loop
\* that observes the stop flag emits nothing, so that a run that returned
\* has emitted one value for each tick but the last.
C36_EmitsAlternate ==
    /\ \A i \in 1..Len(clock.emitted) : High(clock.emitted[i]) <=> Odd(i)
    /\ Clock_state(clock, pins) <=>
          (clock.emitted # <<>> /\ High(clock.emitted[Len(clock.emitted)]))
    /\ Len(clock.emitted) = clock.toggles
    /\ ClockReturned => Len(clock.emitted) = clock.tick_count - 1

\* three values emitted to a connected output, then the stop flag observed
C36_Witness ==
    /\ ClockReturned
    /\ Len(clock.emitted) = 3
    /\ clock.tick_count = 4
    /\ pins[ClockOutput].kind = "Output"
    /\ High(clock.emitted[1]) /\ ~High(clock.emitted[2]) /\ High(clock.emitted[3])
    /\ Clock_state(clock, pins)

---------------------------------------------------------------------------
(* SpecComputer: a Clock and a CPU, the output of the one wired or not to  *)
(* the clock input of the other, added to a Computer in either order; the  *)
(* owner of the Computer calls start() and stop() in any order, and each   *)
(* spawned thread runs the loop of its component: for the Clock a wake-up  *)
(* that counts the tick and loads the stop flag, then the toggle; for the  *)
(* CPU the return of wait() and the load of the stop flag, then the        *)
(* updates and step().  A thread that left run, or panicked, drops its     *)
(* component and can be joined.  Both builds of the Computer and both      *)
(* builds of the Clock's output are covered; a CPU reads the level of a    *)
(* Pin as High does.                                                       *)

Components == {"cpu", "clock"}

Builds == {"PerComponent", "Shared"}

\* the pins a component owns
PinsOf(c) == IF c = "cpu" THEN phi0_in \cup phi1_out \cup phi2_out ELSE {ClockOutput}

\* the thread of a component
ThreadOf(c) == IF c = "cpu" THEN cpu_thread ELSE clock

\* the states of the slots, in the order of the slots
SlotStates(slots) == [i \in 1..Len(slots) |-> slots[i].state]

\* the slot of a component, 0 when it was not added
SlotOf(c) ==
    IF \E i \in 1..Len(computer.slots) : computer.slots[i].component = c
    THEN CHOOSE i \in 1..Len(computer.slots) : computer.slots[i].component = c
    ELSE 0

\* the drop of a component: of its pins, and of the channel ends they hold
DropPins(ps, ids) ==
    [p \in DOMAIN ps |-> IF p \in ids THEN [ps[p] EXCEPT !.kind = "Dropped"] ELSE ps[p]]

DropEnds(chs, ps, ids) ==
    [c \in DOMAIN chs |->
        [chs[c] EXCEPT
            !.tx = @ /\ ~\E p \in ids : ps[p].kind = "Output" /\ ps[p].chan = c,
            !.rx = @ /\ ~\E p \in ids : ps[p].kind = "Input" /\ ps[p].chan = c]]

\* Computer::new, Clock::new and C6502::new, and clock.output().connect_to(
\* cpu.clock_in()) or not
InitComputer ==
    /\ \E checks \in BOOLEAN :
          CpuInit(write_block(write_block(EmptyRam, 57344, ProgramLoop),
                              RESET_VECTOR, <<0, 224>>), checks)
    /\ NoBanks
    /\ cpu_thread = NoThread
    /\ clock = Clock_new
    /\ \E build \in Builds : computer = Computer_new(build)
    /\ pin_impl \in {"Pin", "Port"}
    /\ \E wired \in BOOLEAN :
          LET created == [p \in 1..5 |-> NewPin(IF pin_impl = "Pin" /\ p = ClockOutput
                                               THEN 0 ELSE FALSE)]
              r == IF pin_impl = "Pin"
                   THEN Pin_connect_to(created, <<>>, ClockOutput, PortOf(phi0_in))
                   ELSE OutputPort_connect_to(created, <<>>, ClockOutput, PortOf(phi0_in))
          IN  /\ pins = IF wired THEN r.pins ELSE created
              /\ channels = IF wired THEN r.channels ELSE <<>>
    /\ pin_call = NoPinCall
    /\ pin_history = NoPinHistory(1..5)

\* what an action of the Computer or of a thread leaves alone
ComputerFrame == UNCHANGED <<pin_impl, pin_call, pin_history, memvars>>

\* Computer::add
Add(c) ==
    /\ computer.owner.op = "idle"
    /\ SlotOf(c) = 0
    /\ computer' = [computer EXCEPT
                       !.slots = Append(@, [component |-> c, state |-> "Initial"])]
    /\ UNCHANGED <<cpuvars, pins, channels, cpu_thread, clock>>
    /\ ComputerFrame

\* Computer::start is called: with the shared flag, a new one that is false
StartCall ==
    /\ computer.owner.op = "idle"
    /\ computer.calls < MaxComputerCalls
    /\ computer' =
         [computer EXCEPT
             !.owner = [op |-> "start", phase |-> "spawn", i |-> 1],
             !.stop = IF computer.build = "Shared" THEN FALSE ELSE @,
             !.call = [op |-> "start", outcome |-> "running",
                       before |-> SlotStates(computer.slots), after |-> <<>>],
             !.calls = @ + 1]
    /\ UNCHANGED <<cpuvars, pins, channels, cpu_thread, clock>>
    /\ ComputerFrame

\* the thread of a component as thread::spawn starts it on run(stop)
Spawned(t, c, flag) ==
    [t EXCEPT !.at = IF c = "cpu" THEN "Running" ELSE "Sleeping", !.stop = flag]

\* a start() that takes the component out of any slot that is not empty
Startable_NotNone(state) == state # "None"

\* `if let ComponentState::Initial(mut c) = mem::replace(component, None)`
Startable(state) == state = "Initial"

\* one turn of the loop of Computer::start: the component of an Initial slot
\* is moved into a new thread, any other slot is emptied and start panics;
\* after the last slot start returns
StartTurn ==
    /\ computer.owner.op = "start"
    /\ LET i == computer.owner.i
           slot == computer.slots[i]
           flag == IF computer.build = "Shared" THEN computer.stop ELSE FALSE
       IN  IF i > Len(computer.slots)
           THEN /\ computer' =
                     [computer EXCEPT
                         !.owner = [op |-> "idle", phase |-> "none", i |-> 0],
                         !.call.outcome = "returned",
                         !.call.after = SlotStates(computer.slots)]
                /\ UNCHANGED <<cpu_thread, clock>>
           ELSE IF Startable(slot.state)
           THEN /\ computer' =
                     [computer EXCEPT
                         !.slots[i].state = "Running",
                         !.spawned[slot.component] = @ + 1,
                         !.owner.i = i + 1]
                /\ cpu_thread' = IF slot.component = "cpu"
                                 THEN Spawned(cpu_thread, "cpu", flag) ELSE cpu_thread
                /\ clock' = IF slot.component = "clock"
                            THEN Spawned(clock, "clock", flag) ELSE clock
           ELSE /\ computer' =
                     [computer EXCEPT
                         !.slots[i].state = "None",
                         !.owner = [op |-> "panicked", phase |-> "none", i |-> i],
                         !.call.outcome = "panicked",
                         !.call.after =
                             SlotStates([computer.slots EXCEPT ![i].state = "None"])]
                /\ UNCHANGED <<cpu_thread, clock>>
    /\ UNCHANGED <<cpuvars, pins, channels>>
    /\ ComputerFrame

\* the components whose thread holds the flag that stop() stores to next
Flagged ==
    IF computer.owner.op = "idle"
    THEN {c \in Components : SlotOf(c) # 0 /\ computer.slots[SlotOf(c)].state = "Running"}
    ELSE IF computer.slots[computer.owner.i].state = "Running"
         THEN {computer.slots[computer.owner.i].component} ELSE {}

\* Computer::stop is called: the shared flag is stored at once
StopCall ==
    /\ computer.owner.op = "idle"
    /\ computer.calls < MaxComputerCalls
    /\ LET shared == computer.build = "Shared"
       IN  /\ computer' =
                [computer EXCEPT
                    !.owner = [op |-> "stop",
                               phase |-> IF shared \/ computer.slots = <<>>
                                         THEN "join" ELSE "store",
                               i |-> 1],
                    !.stop = IF shared THEN TRUE ELSE @,
                    !.call = [op |-> "stop", outcome |-> "running",
                              before |-> SlotStates(computer.slots), after |-> <<>>],
                    !.calls = @ + 1]
           /\ cpu_thread' = IF shared /\ "cpu" \in Flagged
                            THEN [cpu_thread EXCEPT !.stop = TRUE] ELSE cpu_thread
           /\ clock' = IF shared /\ "clock" \in Flagged
                       THEN [clock EXCEPT !.stop = TRUE] ELSE clock
    /\ UNCHANGED <<cpuvars, pins, channels>>
    /\ ComputerFrame

\* one turn of the first loop of the Computer::stop that has a flag per
\* component: stop.store(true) for a Running slot
StopStore ==
    /\ computer.owner.op = "stop"
    /\ computer.owner.phase = "store"
    /\ LET i == computer.owner.i
           last == i = Len(computer.slots)
       IN  /\ computer' =
                [computer EXCEPT
                    !.owner = [op |-> "stop", phase |-> IF last THEN "join" ELSE "store",
                               i |-> IF last THEN 1 ELSE i + 1]]
           /\ cpu_thread' = IF "cpu" \in Flagged
                            THEN [cpu_thread EXCEPT !.stop = TRUE] ELSE cpu_thread
           /\ clock' = IF "clock" \in Flagged
                       THEN [clock EXCEPT !.stop = TRUE] ELSE clock
    /\ UNCHANGED <<cpuvars, pins, channels>>
    /\ ComputerFrame

\* a join that does not wait for the thread
Joinable_AtOnce(c) == TRUE

\* handle.join() returns once the thread has ended, with Err if it panicked
Joinable(c) == ThreadOf(c).at \in {"Exited", "Aborted"}

\* a join whose result is ignored in both revisions
JoinPanics_Never(c) == FALSE

\* handle.join().unwrap() panics on Err; handle.join().ok() does not
JoinPanics(c) == computer.build = "PerComponent" /\ ThreadOf(c).at = "Aborted"

\* one turn of the joining loop of Computer::stop: the slot is emptied; a
\* Running one is joined, an Initial one drops its component; after the last
\* slot stop returns
StopJoin ==
    /\ computer.owner.op = "stop"
    /\ computer.owner.phase = "join"
    /\ LET i == computer.owner.i
           slot == computer.slots[i]
           c == slot.component
           emptied == [computer.slots EXCEPT ![i].state = "None"]
       IN  IF i > Len(computer.slots)
           THEN /\ computer' =
                     [computer EXCEPT
                         !.owner = [op |-> "idle", phase |-> "none", i |-> 0],
                         !.call.outcome = "returned",
                         !.call.after = SlotStates(computer.slots)]
                /\ UNCHANGED <<cpu_thread, clock, pins, channels>>
           ELSE /\ slot.state = "Running" => Joinable(c)
                /\ computer' =
                     IF slot.state = "Running" /\ JoinPanics(c)
                     THEN [computer EXCEPT
                              !.slots = emptied,
                              !.owner = [op |-> "panicked", phase |-> "none", i |-> i],
                              !.call.outcome = "panicked",
                              !.call.after = SlotStates(emptied)]
                     ELSE [computer EXCEPT !.slots = emptied, !.owner.i = i + 1]
                /\ IF slot.state = "Initial"
                   THEN /\ pins' = DropPins(pins, PinsOf(c))
                        /\ channels' = DropEnds(channels, pins, PinsOf(c))
                        /\ cpu_thread' = IF c = "cpu"
                                         THEN [cpu_thread EXCEPT !.at = "Dropped"]
                                         ELSE cpu_thread
                        /\ clock' = IF c = "clock"
                                    THEN [clock EXCEPT !.at = "Dropped"] ELSE clock
                   ELSE UNCHANGED <<cpu_thread, clock, pins, channels>>
    /\ UNCHANGED cpuvars
    /\ ComputerFrame

\* a wake-up that loads the stop flag on every other tick only
Clock_wake_EveryOther(c) ==
    [c EXCEPT !.tick_count = @ + 1,
              !.at = IF c.stop /\ c.tick_count % 2 = 1 THEN "Returned" ELSE "Toggling"]

\* Clock::run from the end of the sleep to the load of the stop flag: the
\* tick is counted, and a set flag ends the loop
Clock_wake(c) ==
    [c EXCEPT !.tick_count = @ + 1, !.at = IF c.stop THEN "Returned" ELSE "Toggling"]

\* the thread of the Clock wakes up; ticks are counted up to the bound while
\* nobody has asked it to stop
ClockWake ==
    /\ clock.at = "Sleeping"
    /\ clock.tick_count < MaxTicks \/ clock.stop
    /\ clock' = Clock_wake(clock)
    /\ UNCHANGED <<cpuvars, pins, channels, cpu_thread, computer>>
    /\ ComputerFrame

\* the thread of the Clock toggles its output, the stop flag having been
\* false when it was loaded
ClockToggle ==
    /\ clock.at = "Toggling"
    /\ LET r == Clock_toggle(clock, pins, channels)
       IN  /\ clock' = r.clock
           /\ pins' = r.pins
           /\ channels' = r.channels
    /\ UNCHANGED <<cpuvars, cpu_thread, computer>>
    /\ ComputerFrame

\* the thread of the CPU returns from phi0_in.wait(), or panics in it, and
\* loads the stop flag
CpuWake ==
    /\ cpu_thread.at = "Running"
    /\ Len(cpu_thread.turns) < MaxTicks \/ cpu_thread.stop
    /\ pins[PortOf(phi0_in)].kind = "Input" =>
          ~RecvBlocks(channels, pins[PortOf(phi0_in)].chan)
    /\ LET w == InputPort_wait(pins, channels, PortOf(phi0_in))
           signal == High(w.ret)
           previous == High(pins[PortOf(phi0_in)].value)
       IN  IF w.outcome = "panicked"
           THEN /\ cpu_thread' = [cpu_thread EXCEPT !.at = "Panicked"]
                /\ UNCHANGED <<pins, channels>>
           ELSE /\ pins' = w.pins
                /\ channels' = w.channels
                /\ cpu_thread' =
                     IF cpu_thread.stop
                     THEN [cpu_thread EXCEPT
                              !.at = "Returned",
                              !.turns = Append(@, Turn(signal, previous, TRUE, w.pins, 0))]
                     ELSE [cpu_thread EXCEPT !.at = "Stepping", !.signal = signal,
                                             !.previous = previous]
    /\ UNCHANGED <<cpuvars, clock, computer>>
    /\ ComputerFrame

\* the thread of the CPU, the stop flag having been false when it was
\* loaded, updates phi1_out and phi2_out and calls step() on a true signal
CpuAct ==
    /\ cpu_thread.at = "Stepping"
    /\ LET signal == cpu_thread.signal
           stepping == Stepping(signal, cpu_thread.previous)
           u1 == OutputPort_update(pins, channels, PortOf(phi1_out), ~signal)
           u2 == OutputPort_update(u1.pins, u1.channels, PortOf(phi2_out), signal)
       IN  /\ pins' = u2.pins
           /\ channels' = u2.channels
           /\ IF stepping
              THEN /\ StepCall
                   /\ calls' = [calls EXCEPT !.last = "step", !.steps = @ + 1]
                   /\ UNCHANGED <<cputest, reference>>
              ELSE UNCHANGED cpuvars
           /\ cpu_thread' =
                [cpu_thread EXCEPT
                    !.at = IF panicked' THEN "Panicked" ELSE "Running",
                    !.cycles = IF stepping /\ ~panicked' THEN @ + 1 ELSE @,
                    !.late = IF stepping /\ cpu_thread.stop THEN @ + 1 ELSE @,
                    !.turns = Append(@, Turn(signal, cpu_thread.previous, FALSE, u2.pins,
                                             calls'.steps - calls.steps))]
    /\ UNCHANGED <<clock, computer>>
    /\ ComputerFrame

\* the closure of the thread ends after run has returned, or unwinds after a
\* panic: the component is dropped and the thread can be joined
ThreadExit(c) ==
    /\ ThreadOf(c).at \in {"Returned", "Panicked"}
    /\ pins' = DropPins(pins, PinsOf(c))
    /\ channels' = DropEnds(channels, pins, PinsOf(c))
    /\ cpu_thread' =
         IF c = "cpu"
         THEN [cpu_thread EXCEPT !.at = IF @ = "Returned" THEN "Exited" ELSE "Aborted"]
         ELSE cpu_thread
    /\ clock' =
         IF c = "clock"
         THEN [clock EXCEPT !.at = IF @ = "Returned" THEN "Exited" ELSE "Aborted"]
         ELSE clock
    /\ UNCHANGED <<cpuvars, computer>>
    /\ ComputerFrame

NextComputer ==
    \/ \E c \in Components : Add(c)
    \/ StartCall
    \/ StartTurn
    \/ StopCall
    \/ StopStore
    \/ StopJoin
    \/ ClockWake
    \/ ClockToggle
    \/ CpuWake
    \/ CpuAct
    \/ \E c \in Components : ThreadExit(c)

SpecComputer == InitComputer /\ [][NextComputer]_vars

---------------------------------------------------------------------------
(* C31: Computer::start.                                                   *)

\* the last call on the Computer was op and it has ended as outcome
Ended(op, outcome) == computer.call.op = op /\ computer.call.outcome = outcome

AllSlots(states, state) == \A i \in DOMAIN states : states[i] = state

\* the step spawns a thread for the component
Spawns(c) == computer'.spawned[c] > computer.spawned[c]

\* C31: a start() that finds every slot Initial returns with every slot
\* Running, each spawn giving the component exactly one thread that runs it
\* with a stop flag that is false at that moment; a start() that finds a
\* slot that is not Initial aborts, at its first slot and before it spawns
\* anything; so no component is ever run by two threads or run twice.
C31_StartSpawnsOnce ==
    /\ [](/\ \A c \in Components :
                /\ computer.spawned[c] <= 1
                /\ SlotOf(c) # 0 =>
                      /\ computer.slots[SlotOf(c)].state = "Running" =>
                            computer.spawned[c] = 1
                      /\ computer.slots[SlotOf(c)].state = "Initial" =>
                            computer.spawned[c] = 0 /\ ThreadOf(c).at = "Initial"
          /\ Ended("start", "returned") =>
                /\ AllSlots(computer.call.before, "Initial")
                /\ AllSlots(computer.call.after, "Running")
          /\ computer.call.op = "start" /\ ~AllSlots(computer.call.before, "Initial") =>
                /\ computer.call.outcome # "returned"
                /\ computer.owner.i = 1)
    /\ [][/\ Spawns("cpu") =>
                /\ cpu_thread.at = "Initial"
                /\ cpu_thread'.at = "Running"
                /\ ~cpu_thread'.stop
                /\ computer'.slots[SlotOf("cpu")].state = "Running"
          /\ Spawns("clock") =>
                /\ clock.at = "Initial"
                /\ clock'.at = "Sleeping"
                /\ ~clock'.stop
                /\ computer'.slots[SlotOf("clock")].state = "Running"]_vars

\* start() has moved both components into their threads
C31_Witness ==
    /\ Ended("start", "returned")
    /\ Len(computer.call.before) = 2
    /\ computer.spawned = [c \in Components |-> 1]
    /\ cpu_thread.at = "Running"
    /\ clock.at = "Sleeping"

\* a second start(), after a component was added to the running Computer:
\* it aborts at the Running slot and the new component is never run
C31_AbortWitness ==
    /\ Ended("start", "panicked")
    /\ computer.call.before = <<"Running", "Initial">>
    /\ computer.call.after = <<"None", "Initial">>
    /\ computer.spawned[computer.slots[2].component] = 0

---------------------------------------------------------------------------
(* C32: Computer::stop.                                                    *)

\* the components whose slot was Running when the last call began
RunningBefore ==
    {c \in Components : SlotOf(c) # 0 /\ SlotOf(c) <= Len(computer.call.before)
                        /\ computer.call.before[SlotOf(c)] = "Running"}

\* the thread start() spawned for the component has ended
Ended_Thread(c) == ThreadOf(c).at \in {"Exited", "Aborted"}

\* C32: by the time stop() joins its first thread the stop flag that each
\* Running component observes is true, and when stop() returns every slot
\* is empty and no thread spawned by start() is still executing.
C32_StopFlagsThenJoins ==
    /\ computer.owner.op = "stop" /\ computer.owner.phase = "join" =>
          \A c \in RunningBefore : ThreadOf(c).stop
    /\ Ended("stop", "returned") =>
          /\ AllSlots(computer.call.after, "None")
          /\ \A c \in Components : computer.spawned[c] > 0 => Ended_Thread(c)

\* stop() has returned after joining the threads of both components
C32_Witness ==
    /\ Ended("stop", "returned")
    /\ computer.call.before = <<"Running", "Running">>
    /\ computer.call.after = <<"None", "None">>
    /\ cpu_thread.at = "Exited"
    /\ clock.at = "Exited"

\* stop() is about to join while a thread, its flag set, is still running
C32_JoiningWitness ==
    /\ computer.owner.op = "stop"
    /\ computer.owner.phase = "join"
    /\ computer.owner.i = 1
    /\ RunningBefore = Components
    /\ clock.at = "Toggling"
    /\ cpu_thread.at = "Stepping"

---------------------------------------------------------------------------
(* C33: Computer::stop when the thread of a component has panicked.        *)

\* C33 (as claimed): if the thread of one component has panicked, stop()
\* still joins every other Running component and returns normally with all
\* slots empty; the failure of one join never prevents the remaining joins.
C33_StopSurvivesPanic ==
    computer.call.op = "stop" => computer.call.outcome # "panicked"

\* C33 (what stop does): the stop() of the Computer with one shared flag
\* ignores the result of each join and never aborts; the stop() of the
\* Computer with a flag per component unwraps it, so it returns only when no
\* thread it joined had panicked, and otherwise aborts at the join of the
\* panicked thread and leaves every later slot as it found it, not joined.
C33_StopSurvivesPanicWhenIgnored ==
    computer.call.op = "stop" =>
        /\ computer.build = "Shared" => computer.call.outcome # "panicked"
        /\ computer.call.outcome = "panicked" =>
              LET i == computer.owner.i
              IN  /\ computer.call.before[i] = "Running"
                  /\ ThreadOf(computer.slots[i].component).at = "Aborted"
                  /\ \A j \in DOMAIN computer.call.after :
                        computer.call.after[j] =
                            IF j > i THEN computer.call.before[j] ELSE "None"
        /\ computer.build = "PerComponent" /\ computer.call.outcome = "returned" =>
              \A c \in RunningBefore : ThreadOf(c).at = "Exited"

\* the CPU's thread panicked (its clock input was never connected): stop()
\* aborts at its join and the Clock, added after it, is never joined
C33_Witness ==
    /\ Ended("stop", "panicked")
    /\ computer.build = "PerComponent"
    /\ computer.call.before = <<"Running", "Running">>
    /\ computer.call.after = <<"None", "Running">>
    /\ computer.slots[1].component = "cpu"
    /\ cpu_thread.at = "Aborted"

\* with the shared flag stop() joins both and returns
C33_IgnoredWitness ==
    /\ Ended("stop", "returned")
    /\ computer.build = "Shared"
    /\ computer.call.before = <<"Running", "Running">>
    /\ cpu_thread.at = "Aborted"
    /\ clock.at = "Exited"

---------------------------------------------------------------------------
(* C34: how soon a component leaves run once its stop flag is set.         *)

\* the thread has loaded a set stop flag: run has returned
Observed(t) == t.at \in {"Returned", "Exited"}

\* what the CPU has emitted: the levels of its outputs and its step() calls
CpuEmitted == <<pins[PortOf(phi1_out)].value, pins[PortOf(phi2_out)].value, calls.steps>>

\* C34: once its stop flag is set a component returns from run() at its
\* next wake-up (the end of the Clock's sleep, the return of the CPU's
\* wait()): the Clock makes at most one more toggle and the CPU at most one
\* more step() after the flag was set, and neither emits anything in the
\* turn that observes the flag or after it.
C34_StopsWithinOneTurn ==
    /\ [](clock.late <= 1 /\ cpu_thread.late <= 1)
    /\ [][/\ clock.stop /\ clock.at = "Sleeping" /\ clock'.at # "Sleeping" =>
                clock'.at = "Returned" /\ clock'.emitted = clock.emitted
          /\ cpu_thread.stop /\ cpu_thread.at = "Running" /\ cpu_thread'.at # "Running"
             /\ pins[PortOf(phi0_in)].kind = "Input" =>
                cpu_thread'.at = "Returned" /\ CpuEmitted' = CpuEmitted
          /\ Observed(clock) =>
                /\ Observed(clock')
                /\ clock'.emitted = clock.emitted
                /\ pins'[ClockOutput].value = pins[ClockOutput].value
          /\ Observed(cpu_thread) =>
                /\ Observed(cpu_thread')
                /\ CpuEmitted' = CpuEmitted]_vars

\* both flags were set after the threads had loaded them: one more toggle
\* and one more step(), then both returned
C34_Witness ==
    /\ clock.late = 1
    /\ cpu_thread.late = 1
    /\ Observed(clock)
    /\ Observed(cpu_thread)

---------------------------------------------------------------------------
(* C37: the shutdown of a Clock wired to a CPU.                            *)

\* clock.output().connect_to(cpu.clock_in()) was called
Wired == pins[ClockOutput].chan # 0

\* the thread of the component has panicked
Panics(t) == t.at \in {"Panicked", "Aborted"}

\* the CPU has dropped its input pin: the channel has no receiver
InputDropped == Wired /\ ~channels[pins[ClockOutput].chan].rx

\* C37 (as claimed): during the shutdown of a Clock-to-CPU system no
\* component thread aborts under any interleaving; in particular the toggle
\* the Clock had committed to before the CPU observed the stop flag,
\* returned and dropped its input pin completes without aborting the Clock.
C37_NoThreadAborts == Wired => ~Panics(clock) /\ ~Panics(cpu_thread)

\* C37 (what the threads do): in a Clock-to-CPU system the thread of the
\* CPU never aborts, and neither does that of a Clock whose output is an
\* OutputPin; the thread of a Clock whose output is a Pin aborts in every
\* toggle it makes after the CPU has dropped its input pin, and only there.
C37_ClockAbortsOnDroppedInput ==
    /\ [](Wired =>
             /\ ~Panics(cpu_thread)
             /\ Panics(clock) =>
                   /\ pin_impl = "Pin"
                   /\ InputDropped
                   /\ cpu_thread.at = "Exited")
    /\ [][Wired /\ clock.at = "Toggling" /\ clock'.at # "Toggling" =>
             (clock'.at = "Panicked" <=> (pin_impl = "Pin" /\ InputDropped))]_vars

\* the CPU has returned and dropped its input; the Clock, which had loaded
\* its flag as false, panicked in the toggle that followed
C37_Witness ==
    /\ Wired
    /\ pin_impl = "Pin"
    /\ cpu_thread.at = "Exited"
    /\ clock.at = "Panicked"
    /\ clock.late = 1

\* the same toggle of a Clock whose output is an OutputPin completes
C37_PortWitness ==
    /\ Wired
    /\ pin_impl = "Port"
    /\ InputDropped
    /\ cpu_thread.at = "Exited"
    /\ clock.at = "Sleeping"
    /\ clock.late = 1

---------------------------------------------------------------------------
(* C35: the shutdown ends.  LiveComputer is SpecComputer with every thread *)
(* that can take a step eventually taking one: the two component threads   *)
(* and the owner inside a call of start() or stop().                       *)

LiveComputer ==
    /\ SpecComputer
    /\ WF_vars(ClockWake \/ ClockToggle \/ ThreadExit("clock"))
    /\ WF_vars(CpuWake \/ CpuAct \/ ThreadExit("cpu"))
    /\ WF_vars(StartTurn \/ StopStore \/ StopJoin)

\* stop() was called on a Computer whose Clock and CPU, wired to each other,
\* both run
Stopping ==
    /\ Wired
    /\ computer.call.op = "stop"
    /\ computer.call.outcome = "running"
    /\ computer.call.before = <<"Running", "Running">>

\* stop() has returned and both threads were joined
Stopped ==
    /\ Ended("stop", "returned")
    /\ computer.call.after = <<"None", "None">>
    /\ Ended_Thread("cpu") /\ Ended_Thread("clock")

\* C35 (as claimed): with a Clock connected to the CPU's clock input, both
\* added to one Computer in either order and started, a call to stop()
\* eventually returns with both threads joined, each thread being scheduled
\* again and again.
C35_StopReturns == Stopping ~> Stopped

\* C35 (what the shutdown does): such a call to stop() always ends: it
\* returns with both threads joined, unless the Clock's thread has panicked
\* and the join is unwrapped, where stop() aborts at the join of the Clock.
C35_StopEnds ==
    Stopping ~>
        \/ Stopped
        \/ /\ Ended("stop", "panicked")
           /\ computer.build = "PerComponent"
           /\ pin_impl = "Pin"
           /\ clock.at = "Aborted"
           /\ cpu_thread.at = "Exited"

\* stop() has returned; the CPU was released by the Clock dropping its
\* output, having received no value after the flag was set
C35_Witness ==
    /\ Stopped
    /\ Wired
    /\ computer.call.before = <<"Running", "Running">>
    /\ computer.slots[1].component = "clock"
    /\ cpu_thread.turns = <<Turn(FALSE, FALSE, TRUE, pins, 0)>>
    /\ clock.emitted = <<>>

\* stop() aborted at the join of the Clock, whose toggle found no receiver
C35_AbortWitness ==
    /\ Ended("stop", "panicked")
    /\ Wired
    /\ computer.call.before = <<"Running", "Running">>
    /\ clock.at = "Aborted"
    /\ cpu_thread.at = "Exited"

---------------------------------------------------------------------------
(* SpecStatus: a C6502 from new(), driven by reset() and step() in any     *)
(* order, over programs that push and pull the status register and memory  *)
(* whose stack page and data hold bytes with bits 4 and 5 set.             *)

\* PLP; PHP; PLP; BIT $FE; PHP
ProgramPull == <<40, 8, 40, 36, 254, 8>>
\* BRK; the handler at the IRQ vector is RTI
ProgramBreak == <<0, 234, 234, 234>>
\* RTI with nothing pushed before it
ProgramReturn == <<64, 234>>
\* SED; SEI; SEC; ADC #$FF; PHP; PLP
ProgramSet == <<248, 120, 56, 105, 255, 8, 40>>

StatusPrograms == {ProgramPull, ProgramBreak, ProgramReturn, ProgramSet}
\* the bytes found at $01FE and $00FE
StatusBytes == {255, 48, 16, 32}

InitStatus ==
    \E prog \in StatusPrograms, b \in StatusBytes, checks \in BOOLEAN :
        MachineInit(
            write_block(write_block(write_block(write_block(write_block(write_block(
                EmptyRam, 57344, prog), 57360, <<64>>), RESET_VECTOR, <<0, 224>>),
                IRQ_VECTOR, <<16, 224>>), STACK_BASE + 254, <<b, 0>>), 254, <<b>>),
            checks)

SpecStatus == InitStatus /\ [][Next]_vars

---------------------------------------------------------------------------
(* C38                                                                     *)

\* the step() call of this transition ran cycle `cycle` of opcode `opcode`
\* and returned
Ran(opcode, cycle) ==
    /\ calls'.steps = calls.steps + 1
    /\ cpu.state = "Running"
    /\ cpu.opcode = opcode
    /\ cpu.cycle = cycle
    /\ ~panicked'

\* the byte with bits 4 and 5 cleared
WithoutBreakUnused(v) == BitAnd(v, 207)

\* the cell of the stack the CPU's SP points at
StackTop == MemRead(ram, STACK_BASE + cpu.sp)

\* C38: in every state reachable from C6502::new() by reset() and step()
\* calls, P has neither the Break bit nor the Unused bit set; the copy of P
\* that PHP (cycle 3) and BRK (cycle 5) push is P with both bits set; PLP
\* and RTI (cycle 4) load the byte of the stack with both bits cleared
C38_BreakUnusedOnlyPushed ==
    /\ [](~HasFlag(cpu.p, SR_BREAK) /\ ~HasFlag(cpu.p, SR_UNUSED))
    /\ [][/\ (Ran(8, 3) \/ Ran(0, 5)) =>
                /\ MemRead(ram', STACK_BASE + cpu.sp) = cpu.p + SR_BREAK + SR_UNUSED
                /\ cpu'.p = cpu.p
          /\ Ran(40, 4) => cpu'.p = WithoutBreakUnused(StackTop)
          /\ Ran(64, 4) => cpu'.p = WithoutBreakUnused(StackTop)]_vars

\* PLP has loaded a byte of the stack that has both bits set
C38_Witness ==
    /\ ~panicked
    /\ calls.last = "step"
    /\ last_action = "Complete"
    /\ cpu.opcode = 40
    /\ HasFlag(StackTop, SR_BREAK)
    /\ HasFlag(StackTop, SR_UNUSED)
    /\ cpu.p = StackTop - SR_BREAK - SR_UNUSED
    /\ cpu.p # 0

\* RTI has returned from the handler of a BRK: the copy BRK pushed has both
\* bits set, and P has neither
C38_ReturnWitness ==
    /\ ~panicked
    /\ calls.last = "step"
    /\ last_action = "Complete"
    /\ cpu.opcode = 64
    /\ cpu.pc = 57346
    /\ MemRead(ram, STACK_BASE + cpu.sp - 2) = cpu.p + SR_BREAK + SR_UNUSED

\* PHP has pushed P with both bits set
C38_PushWitness ==
    /\ ~panicked
    /\ calls.last = "step"
    /\ last_action = "Complete"
    /\ cpu.opcode = 8
    /\ cpu.p # 0
    /\ MemRead(ram, STACK_BASE + cpu.sp + 1) = cpu.p + SR_BREAK + SR_UNUSED

---------------------------------------------------------------------------
(* SpecCycles: every opcode of the dispatch table, reached from new() by   *)
(* reset() behind TAX; TAY, with reset() called again inside instructions. *)

\* TAX; TAY: X and Y take the $AA that new() leaves in AC
ProgramIndexes == <<170, 168>>

\* operand bytes: $1210 and the pointer at $10 stay in their page when
\* indexed by $AA, $1278 and the pointer at $78 leave it
CycleOperands == {<<16, 18>>, <<120, 18>>}

\* the instruction under test has finished
TestedDone == completed.action # "None" /\ completed.cpu.pc = 57346

InitCycles ==
    \E opcode \in DOMAIN OpTable, b \in CycleOperands, checks \in BOOLEAN :
        LET regs == [TestRegs EXCEPT !.pc = 57346, !.ac = 170, !.x = 170, !.y = 170,
                                     !.sp = 253]
        IN  MachineInit(
                write_block(write_block(Sparse(OneInstruction(opcode, b[1], b[2], regs)),
                                        57344, ProgramIndexes),
                            RESET_VECTOR, <<0, 224>>),
                checks)

\* reset() called on the CPU that is Off, or inside an instruction
ResetInside ==
    /\ cpu.state = "Off" \/ (cpu.state = "Running" /\ cpu.cycle > 1)
    /\ Reset

\* step() called once the CPU has been reset, until the instruction under
\* test has finished
StepStarted ==
    /\ cpu.state # "Off"
    /\ ~TestedDone
    /\ calls.steps < MaxCycleSteps
    /\ StepCall
    /\ calls' = [calls EXCEPT !.last = "step", !.steps = @ + 1]
    /\ UNCHANGED <<cputest, reference>>
    /\ UNCHANGED <<pinvars, memvars, runvars>>

NextCycles == ResetInside \/ StepStarted

SpecCycles == InitCycles /\ [][NextCycles]_vars

---------------------------------------------------------------------------
(* C39                                                                     *)

\* what the next step() call would do
NextStep == step(Working(cpu, ram))

\* the step() calls made since the opcode was latched, in a CPU that holds one
CallsSinceLatch == cpu.cycle - 2

\* C39: in every reachable state the next step() call runs no unreachable!()
\* arm, whatever the opcode of the dispatch table and also after a reset()
\* inside an instruction; and a call that returns Continue to a Running CPU
\* holding an opcode is at most the 6th after the opcode was latched, so the
\* call that returns Complete or CompleteAndFetch is at most the 7th
C39_CyclesHandled ==
    ~panicked =>
        /\ NextStep.act # "Unreachable"
        /\ (/\ cpu.state = "Running"
            /\ cpu.cycle > 1
            /\ ~NextStep.panic
            /\ NextStep.act = "Continue") => CallsSinceLatch + 1 < 7

\* an instruction of 7 cycles has finished after a reset() that interrupted
\* an instruction
C39_Witness ==
    /\ ~panicked
    /\ calls.resets = 2
    /\ after_reset.state = "Running"
    /\ after_reset.cycle > 1
    /\ calls.last = "step"
    /\ last_action = "Complete"
    /\ completed.steps = 7
    /\ after_reset.steps > 8

\* an indexed read that crosses a page has finished in its 6th cycle
C39_CrossingWitness ==
    /\ ~panicked
    /\ calls.last = "step"
    /\ last_action = "CompleteAndFetch"
    /\ OpTable[MemRead(completed.ram, completed.cpu.pc)].h = "do_op_indirect_indexed"
    /\ completed.steps = 6

---------------------------------------------------------------------------
(* SpecShared: the CPU and a peripheral thread on one Memory.  The CPU     *)
(* runs INC $20 in a loop; the peripheral calls write_byte on $20 and $21. *)
(* A call on the Memory is a lock(), the access and the drop of the guard; *)
(* each step() of this program makes at most one such call.                *)

\* INC $20; JMP $E000
ProgramShared == <<230, 32, 76, 0, 224>>

\* the thread that shares the Memory with the CPU
Peripheral == CHOOSE t \in MemThreads : t # 1

\* the bytes $20 holds at first, and those the peripheral stores
SharedBytes == {5, 255}
PeripheralWrites == {<<32, 9>>, <<32, 128>>, <<33, 9>>}

\* seen: the CPU and the number of its step() calls at the access
IdlePeripheral ==
    [op |-> "none", pc |-> "idle", start |-> 0, data |-> <<>>, i |-> 0, locks |-> 0,
     calls |-> 0, seen |-> NewCpu, steps |-> 0]

InitShared ==
    /\ \E b \in SharedBytes, checks \in BOOLEAN :
          CpuInit(write_block(write_block(write_block(EmptyRam, 57344, ProgramShared),
                                          RESET_VECTOR, <<0, 224>>), 32, <<b>>),
                  checks)
    /\ NoPins
    /\ memory = Memory_new
    /\ mem_lock = 0
    /\ mem_threads = [t \in {Peripheral} |-> IdlePeripheral]
    /\ mem_call = NoMemCall
    /\ NoThreads

\* reset() on the CPU as constructed
SharedReset ==
    /\ cpu.state = "Off"
    /\ Reset

\* step(): its call on the Memory waits for the Mutex, and the guard is
\* dropped before step() returns
SharedStep ==
    /\ cpu.state # "Off"
    /\ mem_lock = 0
    /\ Step

\* the peripheral enters Memory::write_byte
SharedCall(t, address, val) ==
    /\ mem_threads[t].pc \in {"idle", "done"}
    /\ mem_threads[t].calls < MaxMemCalls
    /\ mem_threads' = [mem_threads EXCEPT ![t] =
          [@ EXCEPT !.op = "write_byte", !.pc = "waiting", !.start = address,
                    !.data = <<val>>, !.i = 0, !.locks = 0, !.calls = @ + 1]]
    /\ UNCHANGED <<memory, mem_lock, mem_call, cpuvars, pinvars, runvars>>

\* the byte is stored under the guard, in the memory the CPU drives
SharedAccess(t) ==
    LET th == mem_threads[t]
        r == MemoryImpl_write_byte([memory EXCEPT !.ram = ram], th.start, th.data[1])
    IN  /\ th.pc = "locked"
        /\ th.i < Len(th.data)
        /\ ram' = r.memory.ram
        /\ mem_threads' = [mem_threads EXCEPT ![t].i = @ + 1, ![t].seen = cpu,
                                              ![t].steps = calls.steps]
        /\ UNCHANGED <<cpu, overflow_checks, panicked, calls, last_action, cputest,
                       fetched, completed, reference, after_reset>>
        /\ UNCHANGED <<memory, mem_lock, mem_call, pinvars, runvars>>

NextShared ==
    \/ SharedReset
    \/ SharedStep
    \/ \E w \in PeripheralWrites : SharedCall(Peripheral, w[1], w[2])
    \/ Acquire(Peripheral)
    \/ SharedAccess(Peripheral)
    \/ Release(Peripheral)

SpecShared == InitShared /\ [][NextShared]_vars

---------------------------------------------------------------------------
(* C40                                                                     *)

\* the peripheral has stored a byte at the address of a running INC zp,
\* after the CPU's read cycle and before its write-back cycle
StoredBetween ==
    LET th == mem_threads[Peripheral]
    IN  /\ th.i = 1
        /\ th.seen.state = "Running"
        /\ th.seen.opcode = 230
        /\ th.seen.cycle \in {4, 5}
        /\ th.start = th.seen.addr

\* the write-back of that INC has been the CPU's last step() call
WrittenBack ==
    LET th == mem_threads[Peripheral]
    IN  /\ ~panicked
        /\ calls.last = "step"
        /\ calls.steps = th.steps + 6 - th.seen.cycle

\* the byte the CPU writes back, from what it held when the peripheral
\* stored: the value read (cycle 4) or its transform (cycle 5)
HeldTransform ==
    LET th == mem_threads[Peripheral]
    IN  IF th.seen.cycle = 4 THEN (th.seen.value + 1) % 256 ELSE th.seen.value

\* C40: INC zp is not atomic on the shared Memory: the lock is free between
\* the CPU's read cycle and its write-back cycle, the value the CPU holds
\* after the read cycle is the byte memory held then, and a byte another
\* thread stores at the address between the two cycles is overwritten by the
\* write-back with the transform of the value the CPU read
C40_WriteBetweenIsLost ==
    /\ []((StoredBetween /\ WrittenBack) =>
            /\ MemRead(ram, mem_threads[Peripheral].start) = HeldTransform
            /\ cpu.value = HeldTransform)
    /\ []((cpu.state = "Running" /\ cpu.opcode = 230 /\ cpu.cycle \in {4, 5}) =>
            mem_lock \in {0, Peripheral})
    /\ [][/\ Ran(230, 3) => cpu'.value = MemRead(ram, cpu.addr)
          /\ Ran(230, 4) => (cpu'.value = (cpu.value + 1) % 256 /\ ram' = ram)
          /\ Ran(230, 5) => MemRead(ram', cpu.addr) = cpu.value]_vars

\* the peripheral stored $80 at $20 after the CPU had read $05 there; the
\* write-back has left $06, not $81
C40_Witness ==
    /\ StoredBetween
    /\ WrittenBack
    /\ mem_threads[Peripheral].seen.cycle = 4
    /\ mem_threads[Peripheral].seen.value = 5
    /\ mem_threads[Peripheral].data = <<128>>
    /\ MemRead(ram, 32) = 6

\* the peripheral holds the lock between the two cycles
C40_LockWitness ==
    /\ cpu.state = "Running"
    /\ cpu.opcode = 230
    /\ cpu.cycle = 5
    /\ mem_lock = Peripheral
    /\ mem_threads[Peripheral].start = 32

====
